---- MODULE Spec2Model ----
(***************************************************************************)
(* Telemetry ingestion, threshold alerting, schema setup and retention of  *)
(* the IoT time-series monitor: alert_manager.py, time_series_collection.py*)
(* database_manager.py, sensor_simulator.py and main_simulation.py.        *)
(*                                                                         *)
(* Python's None is the empty tuple <<>> and a present value v is <<v>>,   *)
(* so that "x is not None" is x # None.  Metric values and thresholds are  *)
(* whole degrees Fahrenheit / whole percent.                               *)
(***************************************************************************)
EXTENDS Integers, Sequences, FiniteSets, TLC

VARIABLES
    temp_min, temp_max, humidity_min, humidity_max,   \* AlertManager fields
    call,               \* the evaluator call just made: its name, argument and outcome
    \* the store (MongoDB database monitoringDB)
    coll_exists,        \* the time-series collection is among the database's collections
    indexes,            \* the key lists of the indexes of the collection
    faults,             \* store calls that failed so far (connection loss, timeout, ...)
    created,            \* times the server created the collection
    \* the initializers: a process with its TimeSeriesCollection object
    collection,         \* collection[p]: self.collection is set (not None)
    pc,                 \* pc[p]: where p is in setup
    todo,               \* pc[p] = "drop_index": incompatible indexes of `existing` still to visit
    pos,                \* pc[p] = "create_index": which required index is created next
    setups,             \* setup calls started so far
    run,                \* run[p]: what is on record about p's setup call in progress
    report,             \* report[p]: how p's last finished setup call ended
    lastEnd,            \* how the most recently finished setup call ended
    \* the documents and the clock
    docs,               \* the documents of the time-series collection
    now,                \* datetime.utcnow(), in ticks of data_collection_interval
    next_id,            \* the number in the next ObjectId the driver hands out
    lastOp,             \* the last insert_document / cleanup_old_data call and its outcome
    \* IoTSimulationOrchestrator, inside run_simulation
    opc,                \* the statement the orchestrator is at
    cycle_data,         \* run_simulation_cycle's sensor_data, between generation and insert
    doc_id,             \* run_simulation_cycle's doc_id, between insert and verification
    current_time,       \* run_health_maintenance's current_time
    last_health_check,  \* IoTSimulationOrchestrator.last_health_check
    unverified,         \* ids of the orchestrator's successful inserts not read back yet
    attempts,           \* insert_document calls run_simulation_cycle made for its reading
    failures,           \* the ticks in which a step of the loop failed
    \* AlertManager.validate_thresholds, DataAnalyzer, initialize_system and main
    validation,         \* the validate_thresholds call just made and the warnings it returned
    answer,             \* the DataAnalyzer query just made and what it returned
    startup,            \* where main is: in initialize_system, in run_simulation, or out
    \* DatabaseManager and the store beside the time-series collection
    conn,               \* the MongoClient: open or not, close() calls made, and how it was left
    health,             \* the documents of the scratch collection __health
    purge,              \* a cleanup_old_data call between its cut-off and its delete_many
    quality             \* a get_data_quality_metrics call between its two counts

alertVars == <<temp_min, temp_max, humidity_min, humidity_max>>
evalVars == <<temp_min, temp_max, humidity_min, humidity_max, call>>
schemaVars == <<coll_exists, indexes, created>>
setupVars == <<pc, todo, pos, setups, run, report, lastEnd>>
dataVars == <<docs, now, next_id, lastOp>>
orchVars == <<opc, cycle_data, doc_id, current_time, last_health_check, unverified,
              attempts, failures>>
sessionVars == <<conn, health, purge, quality>>
vars == <<temp_min, temp_max, humidity_min, humidity_max, call,
          coll_exists, indexes, faults, created,
          collection, pc, todo, pos, setups, run, report, lastEnd,
          docs, now, next_id, lastOp,
          opc, cycle_data, doc_id, current_time, last_health_check, unverified,
          attempts, failures, validation, answer, startup,
          conn, health, purge, quality>>

None == <<>>
Some(v) == <<v>>

(***************************************************************************)
(* Bounds of the model and constants of the program.                       *)
(***************************************************************************)
\* Metric values range this far on each side of a default threshold.
Margin == 3
\* set_thresholds is also tried with a minimum this far above the default one.
Shift == 2

\* At most this many store calls fail in one behaviour.
MaxFaults == 1
\* At most this many setup calls are made in one behaviour.
MaxSetups == 3

\* The clock stops at this tick.
MaxClock == 2
\* Ticks of the clock in one day (really 1440: one reading a minute).
DayTicks == 4
\* Ticks of the clock in one hour (really 60).
HourTicks == 2
\* cleanup_old_data is called with 0..MaxDays days, and with its default.
MaxDays == 1
\* At most this many documents are inserted in one behaviour.
MaxInserts == 2

DefaultTempMin == 63
DefaultTempMax == 80
DefaultHumidityMin == 40
DefaultHumidityMax == 60
\* abs(value - threshold) <= 2 is a WARNING
WarningBand == 2
\* the offset of the critical_threshold argument, which _determine_severity ignores
CriticalOffset == 5
\* cleanup_old_data(days_to_keep=30)
DefaultDaysToKeep == 30

TempValues ==
    UNION {(b - Margin)..(b + Margin) : b \in {DefaultTempMin, DefaultTempMax}}
HumidityValues ==
    UNION {(b - Margin)..(b + Margin) : b \in {DefaultHumidityMin, DefaultHumidityMax}}
TempBounds == {DefaultTempMin, DefaultTempMin + Shift, DefaultTempMax}
HumidityBounds == {DefaultHumidityMin, DefaultHumidityMin + Shift, DefaultHumidityMax}

\* The metrics sub-document: each of temperature and humidity present or not.
MetricsDocs ==
    UNION {[ks -> TempValues \cup HumidityValues] : ks \in SUBSET {"temperature", "humidity"}}
WellTypedMetrics ==
    {m \in MetricsDocs :
        /\ ("temperature" \in DOMAIN m => m["temperature"] \in TempValues)
        /\ ("humidity" \in DOMAIN m => m["humidity"] \in HumidityValues)}
\* Documents handed to check_all_thresholds: with a metrics record, or without one.
SensorDocs ==
    {[kind |-> "bare"]} \cup {[kind |-> "reading", metrics |-> m] : m \in WellTypedMetrics}

(***************************************************************************)
(* AlertManager                                                            *)
(***************************************************************************)
Abs(x) == IF x < 0 THEN -x ELSE x

\* dict.get(key): the value, or None when the key is absent
Get(d, key) == IF key \in DOMAIN d THEN Some(d[key]) ELSE None

\* The outcome of an evaluator call: the alert list it returns, or the
\* TypeError Python raises when a None is compared with a number.
Returned(alerts) == [raised |-> FALSE, alerts |-> alerts]
TypeError == [raised |-> TRUE, alerts |-> <<>>]

SeverityStrictBand(value, threshold, critical_threshold) ==
    IF Abs(value - threshold) < WarningBand THEN "WARNING" ELSE "CRITICAL"

_determine_severity(value, threshold, critical_threshold) ==
    IF Abs(value - threshold) <= WarningBand THEN "WARNING" ELSE "CRITICAL"

Alert(type, text, value, threshold, severity) ==
    [type |-> type, message |-> <<text, value, threshold>>, severity |-> severity]

TempCheckExclusiveBounds(temperature) ==
    IF temperature = None THEN TypeError
    ELSE LET t == temperature[1] IN
         IF t <= temp_min THEN
             Returned(<<Alert("TEMPERATURE_LOW", "Temperature below minimum threshold",
                              t, temp_min,
                              _determine_severity(t, temp_min, temp_min - CriticalOffset))>>)
         ELSE IF t >= temp_max THEN
             Returned(<<Alert("TEMPERATURE_HIGH", "Temperature above maximum threshold",
                              t, temp_max,
                              _determine_severity(t, temp_max, temp_max + CriticalOffset))>>)
         ELSE Returned(<<>>)

\* A check with two separate tests instead of if / elif.
TempCheckBothBranches(temperature) ==
    IF temperature = None THEN TypeError
    ELSE LET t == temperature[1]
             low == IF t < temp_min
                    THEN <<Alert("TEMPERATURE_LOW", "Temperature below minimum threshold",
                                 t, temp_min,
                                 _determine_severity(t, temp_min, temp_min - CriticalOffset))>>
                    ELSE <<>>
             high == IF t > temp_max
                     THEN <<Alert("TEMPERATURE_HIGH", "Temperature above maximum threshold",
                                  t, temp_max,
                                  _determine_severity(t, temp_max, temp_max + CriticalOffset))>>
                     ELSE <<>>
         IN  Returned(low \o high)

check_temperature_thresholds(temperature) ==
    IF temperature = None THEN TypeError
    ELSE LET t == temperature[1] IN
         IF t < temp_min THEN
             Returned(<<Alert("TEMPERATURE_LOW", "Temperature below minimum threshold",
                              t, temp_min,
                              _determine_severity(t, temp_min, temp_min - CriticalOffset))>>)
         ELSE IF t > temp_max THEN
             Returned(<<Alert("TEMPERATURE_HIGH", "Temperature above maximum threshold",
                              t, temp_max,
                              _determine_severity(t, temp_max, temp_max + CriticalOffset))>>)
         ELSE Returned(<<>>)

check_humidity_thresholds(humidity) ==
    IF humidity = None THEN TypeError
    ELSE LET h == humidity[1] IN
         IF h < humidity_min THEN
             Returned(<<Alert("HUMIDITY_LOW", "Humidity below minimum threshold",
                              h, humidity_min,
                              _determine_severity(h, humidity_min,
                                                  humidity_min - CriticalOffset))>>)
         ELSE IF h > humidity_max THEN
             Returned(<<Alert("HUMIDITY_HIGH", "Humidity above maximum threshold",
                              h, humidity_max,
                              _determine_severity(h, humidity_max,
                                                  humidity_max + CriticalOffset))>>)
         ELSE Returned(<<>>)

\* alerts.extend(more), where computing `more` may have raised
Extend(sofar, more) ==
    IF sofar.raised THEN sofar
    ELSE IF more.raised THEN TypeError
    ELSE Returned(sofar.alerts \o more.alerts)

CheckAllHumidityOnTemperature(sensor_data) ==
    IF "metrics" \in DOMAIN sensor_data THEN
        LET temperature == Get(sensor_data.metrics, "temperature")
            humidity == Get(sensor_data.metrics, "humidity")
            temp_alerts == IF temperature # None
                           THEN check_temperature_thresholds(temperature)
                           ELSE Returned(<<>>)
            humidity_alerts == IF humidity # None
                               THEN check_humidity_thresholds(temperature)
                               ELSE Returned(<<>>)
        IN  Extend(Extend(Returned(<<>>), temp_alerts), humidity_alerts)
    ELSE Returned(<<>>)

CheckAllUnguarded(sensor_data) ==
    IF "metrics" \in DOMAIN sensor_data THEN
        LET temperature == Get(sensor_data.metrics, "temperature")
            humidity == Get(sensor_data.metrics, "humidity")
        IN  Extend(Extend(Returned(<<>>), check_temperature_thresholds(temperature)),
                   check_humidity_thresholds(humidity))
    ELSE Returned(<<>>)

check_all_thresholds(sensor_data) ==
    IF "metrics" \in DOMAIN sensor_data THEN
        LET temperature == Get(sensor_data.metrics, "temperature")
            humidity == Get(sensor_data.metrics, "humidity")
            temp_alerts == IF temperature # None
                           THEN check_temperature_thresholds(temperature)
                           ELSE Returned(<<>>)
            humidity_alerts == IF humidity # None
                               THEN check_humidity_thresholds(humidity)
                               ELSE Returned(<<>>)
        IN  Extend(Extend(Returned(<<>>), temp_alerts), humidity_alerts)
    ELSE Returned(<<>>)

NoCall == [op |-> "none"]

\* AlertManager.__init__
AlertManagerInit ==
    /\ temp_min = DefaultTempMin
    /\ temp_max = DefaultTempMax
    /\ humidity_min = DefaultHumidityMin
    /\ humidity_max = DefaultHumidityMax

\* set_thresholds: the four bounds are stored as given, in any order relation.
\* The outcome of an earlier evaluator call was a local of its caller and is gone.
SetThresholds(tmin, tmax, hmin, hmax) ==
    /\ temp_min' = tmin
    /\ temp_max' = tmax
    /\ humidity_min' = hmin
    /\ humidity_max' = hmax
    /\ call' = NoCall
    /\ UNCHANGED <<schemaVars, faults, collection, setupVars, dataVars, orchVars, validation, answer, startup, sessionVars>>

CheckTemperature(v) ==
    /\ call' = [op |-> "check_temperature_thresholds", arg |-> v,
                out |-> check_temperature_thresholds(Some(v))]
    /\ UNCHANGED <<alertVars, schemaVars, faults, collection, setupVars, dataVars, orchVars, validation, answer, startup, sessionVars>>

CheckHumidity(v) ==
    /\ call' = [op |-> "check_humidity_thresholds", arg |-> v,
                out |-> check_humidity_thresholds(Some(v))]
    /\ UNCHANGED <<alertVars, schemaVars, faults, collection, setupVars, dataVars, orchVars, validation, answer, startup, sessionVars>>

CheckAll(sensor_data) ==
    /\ call' = [op |-> "check_all_thresholds", arg |-> sensor_data,
                out |-> check_all_thresholds(sensor_data)]
    /\ UNCHANGED <<alertVars, schemaVars, faults, collection, setupVars, dataVars, orchVars, validation, answer, startup, sessionVars>>

\* validate_thresholds: the recommended ranges its first two tests compare with.
RecommendedTempMin == 50
RecommendedTempMax == 100
RecommendedHumidityMin == 20
RecommendedHumidityMax == 80

\* The four texts (the degree signs of the first are left out).
TempRangeWarning == "Temperature thresholds are outside recommended range (50F - 100F)"
HumidityRangeWarning == "Humidity thresholds are outside recommended range (20% - 80%)"
TempOrderWarning == "Temperature minimum must be less than maximum"
HumidityOrderWarning == "Humidity minimum must be less than maximum"

\* warnings.append under a condition
Append_if(warnings, condition, warning) ==
    IF condition THEN Append(warnings, warning) ELSE warnings

\* The body of validate_thresholds on given bounds: four tests in order,
\* each appending its warning; the list is returned and nothing is stored.
Warnings(tmin, tmax, hmin, hmax) ==
    LET w1 == Append_if(<<>>, tmin < RecommendedTempMin \/ tmax > RecommendedTempMax,
                        TempRangeWarning)
        w2 == Append_if(w1, hmin < RecommendedHumidityMin \/ hmax > RecommendedHumidityMax,
                        HumidityRangeWarning)
        w3 == Append_if(w2, tmin >= tmax, TempOrderWarning)
    IN  Append_if(w3, hmin >= hmax, HumidityOrderWarning)

validate_thresholds == Warnings(temp_min, temp_max, humidity_min, humidity_max)

\* A validation that would put back the defaults on finding an inverted pair.
ValidateAndRevert ==
    /\ validation' = [op |-> "validate_thresholds",
                      config |-> <<temp_min, temp_max, humidity_min, humidity_max>>,
                      out |-> validate_thresholds]
    /\ temp_min' = IF temp_min >= temp_max THEN DefaultTempMin ELSE temp_min
    /\ temp_max' = IF temp_min >= temp_max THEN DefaultTempMax ELSE temp_max
    /\ humidity_min' = IF humidity_min >= humidity_max THEN DefaultHumidityMin ELSE humidity_min
    /\ humidity_max' = IF humidity_min >= humidity_max THEN DefaultHumidityMax ELSE humidity_max
    /\ UNCHANGED <<call, schemaVars, faults, collection, setupVars, dataVars, orchVars, answer, startup, sessionVars>>

\* A call of validate_thresholds: the caller holds the warnings, the bounds stay.
ValidateThresholds ==
    /\ validation' = [op |-> "validate_thresholds",
                      config |-> <<temp_min, temp_max, humidity_min, humidity_max>>,
                      out |-> validate_thresholds]
    /\ UNCHANGED <<alertVars, call, schemaVars, faults, collection, setupVars, dataVars, orchVars, answer, startup, sessionVars>>


(***************************************************************************)
(* The store's schema and TimeSeriesCollection.setup                       *)
(***************************************************************************)
ASCENDING == 1
DESCENDING == -1

\* main_simulation.py and main_analyzer.py each build a TimeSeriesCollection
\* on the same database and call setup on it.
Initializers == {"main_simulation", "main_analyzer"}

AlertFields == {"alert_type", "alert_message", "severity"}

\* The create_index calls of _create_indexes, in order.
RequiredIndexes ==
    << << <<"timestamp", DESCENDING>> >>,
       << <<"metadata.location", ASCENDING>> >>,
       << <<"metadata.building", ASCENDING>> >>,
       << <<"metadata.room", ASCENDING>> >>,
       << <<"timestamp", DESCENDING>>, <<"metadata.location", ASCENDING>>,
          <<"metadata.building", ASCENDING>> >> >>

RequiredSet == {RequiredIndexes[i] : i \in 1..Len(RequiredIndexes)}

\* Indexes an earlier schema version may have left on the alert fields.
LegacyIndexes ==
    { << <<"alert_type", ASCENDING>> >>,
      << <<"severity", ASCENDING>> >>,
      << <<"alert_message", ASCENDING>> >>,
      << <<"alert_type", DESCENDING>> >> }

Fields(keys) == {keys[i][1] : i \in 1..Len(keys)}
OnAlertField(keys) == Fields(keys) \cap AlertFields # {}

\* the test of _create_indexes on an existing index's key list
Incompatible(keys) ==
    \/ keys = << <<"alert_type", 1>> >>
    \/ keys = << <<"severity", 1>> >>

DropsFirstOnly(existing) ==
    LET all == {keys \in existing : Incompatible(keys)}
    IN  IF all = {} THEN {} ELSE {CHOOSE keys \in all : TRUE}

\* the entries of existing that the loop of _create_indexes drops
Drops(existing) == {keys \in existing : Incompatible(keys)}

Running(p) == pc[p] # "idle"

NoRun == [phase |-> "none"]

\* A store call fails only while the budget of failures lasts.
MayFail(fail) == fail => faults < MaxFaults
Count(fail) == IF fail THEN 1 ELSE 0

\* setup returns True or re-raises: the call is over, and on record.  failed:
\* the store call of this step failed, with an error setup does not tolerate.
Finish(p, raised, idx, failed, dropfail) ==
    LET r == [phase |-> "ended",
              raised |-> raised,
              fatal |-> failed,
              dropfail |-> run[p].dropfail \/ dropfail,
              alone |-> run[p].alone,
              prev |-> run[p].prev,
              coll |-> coll_exists,
              idx |-> idx]
    IN  /\ report' = [report EXCEPT ![p] = r]
        /\ lastEnd' = [r EXCEPT !.prev = NoRun]
        /\ run' = [run EXCEPT ![p] = NoRun]
        /\ pc' = [pc EXCEPT ![p] = "idle"]

\* a drop_index that did not drop is logged, and on record
Note(p, dropfail) ==
    run' = [q \in Initializers |->
              IF q = p THEN [run[p] EXCEPT !.dropfail = @ \/ dropfail]
              ELSE run[q]]

\* setup, first statement: collections = self.db_manager.list_collections().
\* list_collections swallows a failure of the store call and returns [].
\* A process may call setup again after a return or a raise (a restart).
SetupListCollections(p, fail) ==
    /\ pc[p] = "idle"
    /\ setups < MaxSetups
    /\ MayFail(fail)
    /\ faults' = faults + Count(fail)
    /\ setups' = setups + 1
    /\ LET collections == IF fail THEN FALSE ELSE coll_exists
           others == {q \in Initializers \ {p} : Running(q)}
       IN  /\ pc' = [pc EXCEPT ![p] = IF collections THEN "index_information"
                                                      ELSE "create_collection"]
           /\ run' = [q \in Initializers |->
                        IF q = p THEN [phase |-> "running",
                                       dropfail |-> FALSE, alone |-> others = {},
                                       prev |-> lastEnd]
                        ELSE IF Running(q) THEN [run[q] EXCEPT !.alone = FALSE]
                        ELSE run[q]]
    /\ UNCHANGED <<coll_exists, indexes, created, collection, todo, pos, report, lastEnd>>
    /\ UNCHANGED <<evalVars, dataVars, orchVars, validation, answer, startup, sessionVars>>

\* db.create_collection, first half: the driver lists the collection names and
\* raises CollectionInvalid when the name is among them; setup catches that and
\* goes on.  Any other failure leaves setup through "except Exception: raise".
SetupCreateCheck(p, fail) ==
    /\ pc[p] = "create_collection"
    /\ MayFail(fail)
    /\ faults' = faults + Count(fail)
    /\ IF fail
       THEN /\ Finish(p, TRUE, indexes, TRUE, FALSE)
            /\ UNCHANGED <<todo, pos>>
       ELSE /\ pc' = [pc EXCEPT ![p] = IF coll_exists THEN "index_information"
                                                       ELSE "create_command"]
            /\ UNCHANGED <<run, report, lastEnd, todo, pos>>
    /\ UNCHANGED <<coll_exists, indexes, created, collection, setups>>
    /\ UNCHANGED <<evalVars, dataVars, orchVars, validation, answer, startup, sessionVars>>

\* db.create_collection, second half: the server's create command.  When the
\* collection came into being since the driver's check, the server answers
\* NamespaceExists, which the driver raises as OperationFailure: that is not a
\* CollectionInvalid, so it reaches "except Exception: raise".
SetupCreateCommand(p, fail) ==
    /\ pc[p] = "create_command"
    /\ MayFail(fail)
    /\ faults' = faults + Count(fail)
    /\ IF fail \/ coll_exists
       THEN /\ Finish(p, TRUE, indexes, fail, FALSE)
            /\ UNCHANGED <<coll_exists, created, todo, pos>>
       ELSE /\ coll_exists' = TRUE
            /\ created' = created + 1
            /\ pc' = [pc EXCEPT ![p] = "index_information"]
            /\ UNCHANGED <<run, report, lastEnd, todo, pos>>
    /\ UNCHANGED <<indexes, collection, setups>>
    /\ UNCHANGED <<evalVars, dataVars, orchVars, validation, answer, startup, sessionVars>>

\* self.collection = get_collection(name); then _create_indexes starts with
\* existing = self.collection.index_information() and will visit the entries
\* whose key list is incompatible.
SetupIndexInformation(p, fail) ==
    /\ pc[p] = "index_information"
    /\ MayFail(fail)
    /\ faults' = faults + Count(fail)
    /\ collection' = [collection EXCEPT ![p] = TRUE]
    /\ IF fail
       THEN /\ Finish(p, TRUE, indexes, TRUE, FALSE)
            /\ UNCHANGED <<todo, pos>>
       ELSE LET existing == indexes
                drops == Drops(existing)
            IN  /\ todo' = [todo EXCEPT ![p] = drops]
                /\ pos' = [pos EXCEPT ![p] = 1]
                /\ pc' = [pc EXCEPT ![p] = IF drops = {} THEN "create_index"
                                                         ELSE "drop_index"]
                /\ UNCHANGED <<run, report, lastEnd>>
    /\ UNCHANGED <<coll_exists, indexes, created, setups>>
    /\ UNCHANGED <<evalVars, dataVars, orchVars, validation, answer, startup, sessionVars>>

\* One round of the loop over existing: drop_index(name).  A drop that fails
\* (the store call fails, or the index is gone already) is logged and the loop
\* goes on.
SetupDropIndex(p, keys, fail) ==
    /\ pc[p] = "drop_index"
    /\ keys \in todo[p]
    /\ MayFail(fail)
    /\ faults' = faults + Count(fail)
    /\ LET dropped == ~fail /\ keys \in indexes IN
       /\ indexes' = IF dropped THEN indexes \ {keys} ELSE indexes
       /\ Note(p, ~dropped)
    /\ todo' = [todo EXCEPT ![p] = @ \ {keys}]
    /\ pc' = [pc EXCEPT ![p] = IF todo[p] = {keys} THEN "create_index" ELSE "drop_index"]
    /\ UNCHANGED <<coll_exists, created, collection, pos, setups, report, lastEnd>>
    /\ UNCHANGED <<evalVars, dataVars, orchVars, validation, answer, startup, sessionVars>>

\* One create_index call; creating an index that exists changes nothing.  After
\* the last one setup returns True; a failure is logged and re-raised.
SetupCreateIndex(p, fail) ==
    /\ pc[p] = "create_index"
    /\ MayFail(fail)
    /\ faults' = faults + Count(fail)
    /\ IF fail
       THEN /\ Finish(p, TRUE, indexes, TRUE, FALSE)
            /\ UNCHANGED <<indexes, pos>>
       ELSE /\ indexes' = indexes \cup {RequiredIndexes[pos[p]]}
            /\ IF pos[p] = Len(RequiredIndexes)
               THEN /\ Finish(p, FALSE, indexes', FALSE, FALSE)
                    /\ UNCHANGED pos
               ELSE /\ pos' = [pos EXCEPT ![p] = @ + 1]
                    /\ UNCHANGED <<pc, run, report, lastEnd>>
    /\ UNCHANGED <<coll_exists, created, collection, todo, setups>>
    /\ UNCHANGED <<evalVars, dataVars, orchVars, validation, answer, startup, sessionVars>>

\* TimeSeriesCollection.__init__ of every initializer
CollectionObjectsInit ==
    /\ pc = [p \in Initializers |-> "idle"]
    /\ todo = [p \in Initializers |-> {}]
    /\ pos = [p \in Initializers |-> 1]
    /\ setups = 0
    /\ run = [p \in Initializers |-> NoRun]
    /\ report = [p \in Initializers |-> NoRun]
    /\ lastEnd = NoRun

\* The database before any initializer runs: without the collection, or with
\* it as an earlier run or schema version left it.
StoreSchemaInit ==
    /\ coll_exists \in BOOLEAN
    /\ indexes \in IF coll_exists
                   THEN {legacy \cup required :
                            legacy \in SUBSET LegacyIndexes,
                            required \in {{}, RequiredSet}}
                   ELSE {{}}
    /\ created = 0
    /\ faults = 0

\* A database that has been set up: what the evaluator runs beside.
StoreReadyInit ==
    /\ coll_exists = TRUE
    /\ indexes = RequiredSet
    /\ created = 0
    /\ faults = 0

(***************************************************************************)
(* Documents (sensor_simulator.py) and apply_alerts_to_data                *)
(***************************************************************************)
\* A document field holding None, a list, or a string.
PyNone == [py |-> "None"]
PyList(items) == [py |-> "list", items |-> items]
PyStr(s) == [py |-> "str", s |-> s]

\* generate_sensor_data with the drawn temperature and humidity; the location is
\* the one initialize_system sets with set_location("MCW", "CBE", "ServerRoom").
generate_sensor_data(temperature, humidity) ==
    [timestamp |-> now,
     metadata |-> [location |-> "MCW", building |-> "CBE", room |-> "ServerRoom",
                   sensor_id |-> "SR001", sensor_type |-> "environmental"],
     metrics |-> [temperature |-> temperature, humidity |-> humidity],
     alert_type |-> PyNone,
     alert_message |-> PyNone,
     severity |-> PyNone]

\* A health-status document made from a reading and the evaluator's verdict.
HealthStatusMeasured ==
    LET reading == generate_sensor_data(DefaultTempMax + 1, DefaultHumidityMax)
        alerts == check_all_thresholds(reading).alerts
    IN  [reading EXCEPT
            !.alert_type = PyList([i \in 1..Len(alerts) |-> alerts[i].type]),
            !.severity = PyList([i \in 1..Len(alerts) |-> alerts[i].severity])]

generate_health_status ==
    [timestamp |-> now,
     metadata |-> [location |-> "MCW", building |-> "CBE", room |-> "ServerRoom",
                   type |-> "health_status"],
     status |-> "OPTIMAL",
     message |-> "Server room environment is running within optimal parameters",
     alert_type |-> PyStr("HEALTH_STATUS"),
     severity |-> PyStr("INFO")]

Column(alerts, field) == [i \in 1..Len(alerts) |-> alerts[i][field]]

\* "if alerts:" assigns the three keys, which adds those the document lacks.
apply_alerts_to_data(document, alerts) ==
    IF alerts = <<>> THEN document
    ELSE [k \in DOMAIN document \cup {"alert_type", "alert_message", "severity"} |->
            CASE k = "alert_type" -> PyList(Column(alerts, "type"))
              [] k = "alert_message" -> PyList(Column(alerts, "message"))
              [] k = "severity" -> PyList(Column(alerts, "severity"))
              [] OTHER -> document[k]]

\* The simulator's safe ranges, which main_simulation never changes.
temp_safe_min == 65
temp_safe_max == 75
humidity_safe_min == 45
humidity_safe_max == 55

\* generate_temperature and generate_humidity draw from the safe range, or from
\* a range 3 to 10 below it, or from one 3 to 10 above it, and round to two
\* decimals; these are the whole numbers among the values they can return.
\* random.uniform(a, b) draws between its arguments in whichever order.
Draws(safe_min, safe_max) ==
    (safe_min..safe_max) \cup (safe_max..safe_min)
                         \cup ((safe_min - 10)..(safe_min - 3))
                         \cup ((safe_max + 3)..(safe_max + 10))
TempDraws == Draws(temp_safe_min, temp_safe_max)
HumidityDraws == Draws(humidity_safe_min, humidity_safe_max)

\* Temperatures and humidities drawn in a cycle: of the draws, one below the
\* lower default threshold, one in the safe range and one above the upper.
CycleTemps == TempDraws \cap {DefaultTempMin - Margin, temp_safe_min, DefaultTempMax + 1}
CycleHumidities == HumidityDraws \cap {DefaultHumidityMin - 1, DefaultHumidityMax}

\* Timestamps of documents that earlier runs left in the collection: on and just
\* before the cut-off of one day and that of the default retention at tick 0.
OldStamps ==
    {o - d * DayTicks : d \in {1, DefaultDaysToKeep}, o \in {-1, 0}}

OldDoc(stamp) ==
    [generate_health_status EXCEPT !.timestamp = stamp] @@ ("_id" :> <<"old", stamp>>)

OldDocs == {OldDoc(stamp) : stamp \in OldStamps}

(***************************************************************************)
(* TimeSeriesCollection: insert_document, verify_insertion, cleanup_old_data*)
(***************************************************************************)
\* insert_one stores the document under a fresh ObjectId
Stored(document) == document @@ ("_id" :> <<"new", next_id>>)

\* insert_document's result (inserted_id, success).  Without a collection
\* reference, or when insert_one raises, it is (None, False).
InsertResult(p, fail) ==
    IF collection[p] /\ ~fail
    THEN [inserted_id |-> Some(<<"new", next_id>>), success |-> TRUE]
    ELSE [inserted_id |-> None, success |-> FALSE]

\* A store call is made, and can fail, only when the collection reference is set.
Reaches(p, fail) ==
    /\ MayFail(fail)
    /\ fail => collection[p]

insert_document(p, document, fail) ==
    /\ Reaches(p, fail)
    /\ faults' = faults + Count(fail)
    /\ LET result == InsertResult(p, fail) IN
       /\ docs' = IF result.success THEN docs \cup {Stored(document)} ELSE docs
       /\ next_id' = IF result.success THEN next_id + 1 ELSE next_id
       /\ lastOp' = [op |-> "insert_document", success |-> result.success]

\* verify_insertion: find_one({"_id": document_id}) is not None; False without a
\* collection reference or when find_one raises.
verify_insertion(p, document_id, fail) ==
    /\ collection[p]
    /\ ~fail
    /\ \E d \in docs : Some(d["_id"]) = document_id

\* the filter {"timestamp": {"$lt": cutoff_date}} of delete_many
Expired(document, cutoff_date) == document.timestamp < cutoff_date

\* the documents delete_many removes
Deleted(cutoff_date) == {d \in docs : Expired(d, cutoff_date)}

\* A cut-off that far in the future instead of the past.
DaysAhead(days_to_keep) == 0 - days_to_keep * DayTicks

\* timedelta(days=days_to_keep), in ticks
Days(days_to_keep) == days_to_keep * DayTicks

\* What is on record about a cleanup_old_data call for the call after it.
Summary(op) ==
    IF op.op = "cleanup_old_data"
    THEN [op |-> "cleanup_old_data", days |-> op.days, cutoff |-> op.cutoff,
          reached |-> op.reached, returned |-> op.returned]
    ELSE [op |-> "other"]

\* cleanup_old_data(days_to_keep): returns 0 without a collection reference;
\* else deletes the documents older than the cut-off and returns their number;
\* returns 0 when delete_many raises.
cleanup_old_data(p, days_to_keep, fail) ==
    /\ Reaches(p, fail)
    /\ faults' = faults + Count(fail)
    /\ LET cutoff_date == now - Days(days_to_keep)
           reached == collection[p] /\ ~fail
           deleted == IF reached THEN Deleted(cutoff_date) ELSE {}
       IN  /\ docs' = docs \ deleted
           /\ lastOp' = [op |-> "cleanup_old_data",
                         days |-> days_to_keep,
                         at |-> now,
                         cutoff |-> cutoff_date,
                         reached |-> reached,
                         returned |-> Cardinality(deleted),
                         before |-> docs,
                         prev |-> Summary(lastOp)]

NoOp == [op |-> "none"]

\* Calls made on a TimeSeriesCollection object directly.
InsertDocument(p, document, fail) ==
    /\ next_id <= MaxInserts
    /\ insert_document(p, document, fail)
    /\ UNCHANGED <<now, collection, evalVars, schemaVars, setupVars, orchVars, validation, answer, startup, sessionVars>>

DayChoices == (0..MaxDays) \cup {DefaultDaysToKeep}

CleanupOldData(p, days_to_keep, fail) ==
    /\ cleanup_old_data(p, days_to_keep, fail)
    /\ UNCHANGED <<now, next_id, collection, evalVars, schemaVars, setupVars, orchVars, validation, answer, startup, sessionVars>>

\* cleanup_old_data beside other clients of the store, in its two steps.
\* First cutoff_date = datetime.utcnow() - timedelta(days=days_to_keep).
PurgeBegin(p, days_to_keep) ==
    /\ purge = NoCall
    /\ collection[p]
    /\ purge' = [op |-> "cleanup_old_data", days |-> days_to_keep, at |-> now,
                 cutoff |-> now - Days(days_to_keep), before |-> docs]
    /\ UNCHANGED <<dataVars, faults, collection, evalVars, schemaVars, setupVars, orchVars,
                   validation, answer, startup, conn, health, quality>>

\* Then delete_many({"timestamp": {"$lt": cutoff_date}}) on the store as it is
\* by then; when it raises nothing is deleted and 0 is returned.
PurgeDelete(fail) ==
    /\ purge # NoCall
    /\ MayFail(fail)
    /\ faults' = faults + Count(fail)
    /\ LET deleted == IF fail THEN {} ELSE Deleted(purge.cutoff)
       IN  /\ docs' = docs \ deleted
           /\ lastOp' = [op |-> "cleanup_old_data",
                         days |-> purge.days,
                         at |-> purge.at,
                         cutoff |-> purge.cutoff,
                         reached |-> ~fail,
                         returned |-> Cardinality(deleted),
                         before |-> purge.before,
                         prev |-> Summary(lastOp)]
    /\ purge' = NoCall
    /\ UNCHANGED <<now, next_id, collection, evalVars, schemaVars, setupVars, orchVars,
                   validation, answer, startup, conn, health, quality>>

\* Time passes.
Tick ==
    /\ now < MaxClock
    /\ now' = now + 1
    /\ UNCHANGED <<docs, next_id, lastOp, faults, collection,
                   evalVars, schemaVars, setupVars, orchVars, validation, answer, startup, sessionVars>>

(***************************************************************************)
(* IoTSimulationOrchestrator.run_simulation                                *)
(***************************************************************************)
Orchestrator == "main_simulation"

NoDoc == [kind |-> "none"]

\* health_check_interval = 24 * 60 * 60 seconds: one day
health_check_interval == DayTicks

\* A cycle that would store the reading as generated, without its alerts.
CycleGenerateBare(temperature, humidity) ==
    /\ opc = "cycle"
    /\ cycle_data' = generate_sensor_data(temperature, humidity)
    /\ opc' = "insert_document"
    /\ attempts' = 0
    /\ UNCHANGED <<doc_id, current_time, last_health_check, unverified, failures>>
    /\ UNCHANGED <<dataVars, faults, collection, evalVars, schemaVars, setupVars, validation, answer, startup, sessionVars>>

\* run_simulation_cycle up to the insert: generate the reading, evaluate the
\* thresholds, attach the alerts.
CycleGenerate(temperature, humidity) ==
    /\ opc = "cycle"
    /\ LET generated == generate_sensor_data(temperature, humidity)
           alerts == check_all_thresholds(generated).alerts
       IN  cycle_data' = apply_alerts_to_data(generated, alerts)
    /\ opc' = "insert_document"
    /\ attempts' = 0
    /\ UNCHANGED <<doc_id, current_time, last_health_check, unverified, failures>>
    /\ UNCHANGED <<dataVars, faults, collection, evalVars, schemaVars, setupVars, validation, answer, startup, sessionVars>>

CycleInsertRetries(fail) ==
    /\ opc = "insert_document"
    /\ insert_document(Orchestrator, cycle_data, fail)
    /\ LET result == InsertResult(Orchestrator, fail) IN
       /\ doc_id' = result.inserted_id
       /\ opc' = IF result.success THEN "verify_insertion" ELSE "insert_document"
       /\ unverified' = IF result.success THEN unverified \cup {result.inserted_id}
                                          ELSE unverified
       /\ failures' = IF result.success THEN failures ELSE failures \cup {now}
       /\ cycle_data' = IF result.success THEN NoDoc ELSE cycle_data
    /\ attempts' = attempts + 1
    /\ UNCHANGED <<now, current_time, last_health_check>>
    /\ UNCHANGED <<collection, evalVars, schemaVars, setupVars, validation, answer, startup, sessionVars>>

CycleInsertStops(fail) ==
    /\ opc = "insert_document"
    /\ insert_document(Orchestrator, cycle_data, fail)
    /\ LET result == InsertResult(Orchestrator, fail) IN
       /\ doc_id' = result.inserted_id
       /\ opc' = IF result.success THEN "verify_insertion" ELSE "stopped"
       /\ unverified' = IF result.success THEN unverified \cup {result.inserted_id}
                                          ELSE unverified
       /\ failures' = IF result.success THEN failures ELSE failures \cup {now}
    /\ attempts' = attempts + 1
    /\ cycle_data' = NoDoc
    /\ UNCHANGED <<now, current_time, last_health_check>>
    /\ UNCHANGED <<collection, evalVars, schemaVars, setupVars, validation, answer, startup, sessionVars>>

\* doc_id, success = insert_document(sensor_data); "if success" leads to the
\* verification, else the failure is logged and the cycle returns.
CycleInsert(fail) ==
    /\ opc = "insert_document"
    /\ insert_document(Orchestrator, cycle_data, fail)
    /\ LET result == InsertResult(Orchestrator, fail) IN
       /\ doc_id' = result.inserted_id
       /\ opc' = IF result.success THEN "verify_insertion" ELSE "maintenance"
       /\ unverified' = IF result.success THEN unverified \cup {result.inserted_id}
                                          ELSE unverified
       /\ failures' = IF result.success THEN failures ELSE failures \cup {now}
    /\ attempts' = attempts + 1
    /\ cycle_data' = NoDoc
    /\ UNCHANGED <<now, current_time, last_health_check>>
    /\ UNCHANGED <<collection, evalVars, schemaVars, setupVars, validation, answer, startup, sessionVars>>

\* A verification that would write its outcome into the stored document.
CycleVerifyMarks(fail) ==
    /\ opc = "verify_insertion"
    /\ Reaches(Orchestrator, fail)
    /\ faults' = faults + Count(fail)
    /\ unverified' = unverified \ {doc_id}
    /\ failures' = IF verify_insertion(Orchestrator, doc_id, fail)
                   THEN failures ELSE failures \cup {now}
    /\ docs' = {IF Some(d["_id"]) = doc_id THEN [d EXCEPT !.severity = PyStr("VERIFIED")]
                                           ELSE d : d \in docs}
    /\ doc_id' = None
    /\ opc' = "maintenance"
    /\ UNCHANGED <<cycle_data, current_time, last_health_check, attempts>>
    /\ UNCHANGED <<now, next_id, lastOp, collection, evalVars, schemaVars, setupVars,
                   validation, answer, startup, sessionVars>>

\* verify_insertion(doc_id): the outcome is only logged; the cycle returns.
CycleVerify(fail) ==
    /\ opc = "verify_insertion"
    /\ Reaches(Orchestrator, fail)
    /\ faults' = faults + Count(fail)
    /\ unverified' = unverified \ {doc_id}
    /\ failures' = IF verify_insertion(Orchestrator, doc_id, fail)
                   THEN failures ELSE failures \cup {now}
    /\ doc_id' = None
    /\ opc' = "maintenance"
    /\ UNCHANGED <<cycle_data, current_time, last_health_check, attempts>>
    /\ UNCHANGED <<dataVars, collection, evalVars, schemaVars, setupVars, validation, answer, startup, sessionVars>>

\* A maintenance that would be due in every iteration.
DueEveryTick == TRUE

Due ==
    \/ last_health_check = None
    \/ now - last_health_check[1] >= health_check_interval

\* run_health_maintenance: read the clock and decide whether maintenance is due.
MaintenanceCheck ==
    /\ opc = "maintenance"
    /\ current_time' = Some(now)
    /\ opc' = IF Due THEN "health_status" ELSE "sleep"
    /\ UNCHANGED <<cycle_data, doc_id, last_health_check, unverified, attempts, failures>>
    /\ UNCHANGED <<dataVars, faults, collection, evalVars, schemaVars, setupVars, validation, answer, startup, sessionVars>>

\* insert_document(generate_health_status()): the result is not looked at.
MaintenanceInsert(fail) ==
    /\ opc = "health_status"
    /\ insert_document(Orchestrator, generate_health_status, fail)
    /\ LET result == InsertResult(Orchestrator, fail) IN
       /\ unverified' = IF result.success THEN unverified \cup {result.inserted_id}
                                          ELSE unverified
       /\ failures' = IF result.success THEN failures ELSE failures \cup {now}
    /\ opc' = "cleanup_old_data"
    /\ UNCHANGED <<now, cycle_data, doc_id, current_time, last_health_check, attempts>>
    /\ UNCHANGED <<collection, evalVars, schemaVars, setupVars, validation, answer, startup, sessionVars>>

\* cleanup_old_data() with the default age; its count is logged.
MaintenanceCleanup(fail) ==
    /\ opc = "cleanup_old_data"
    /\ cleanup_old_data(Orchestrator, DefaultDaysToKeep, fail)
    /\ opc' = "last_health_check"
    /\ failures' = IF fail THEN failures \cup {now} ELSE failures
    /\ UNCHANGED <<now, next_id, cycle_data, doc_id, current_time, last_health_check,
                   unverified, attempts>>
    /\ UNCHANGED <<collection, evalVars, schemaVars, setupVars, validation, answer, startup, sessionVars>>

\* self.last_health_check = current_time, the statement after the purge.
MaintenanceDone ==
    /\ opc = "last_health_check"
    /\ last_health_check' = current_time
    /\ current_time' = None
    /\ opc' = "sleep"
    /\ UNCHANGED <<dataVars, faults, cycle_data, doc_id, unverified, attempts, failures>>
    /\ UNCHANGED <<collection, evalVars, schemaVars, setupVars, validation, answer, startup, sessionVars>>

\* time.sleep(data_collection_interval): one tick later the loop goes round.
Sleep ==
    /\ opc = "sleep"
    /\ now < MaxClock
    /\ now' = now + 1
    /\ opc' = "cycle"
    /\ UNCHANGED <<docs, next_id, lastOp, cycle_data, doc_id, current_time,
                   last_health_check, unverified, attempts, failures>>
    /\ UNCHANGED <<faults, collection, evalVars, schemaVars, setupVars, validation, answer, startup, sessionVars>>

\* The statements of the loop at which an insert_one call is made, and the
\* document each of them passes.
InsertPositions == {"insert_document", "health_status"}
DocumentAt(position) ==
    IF position = "insert_document" THEN cycle_data ELSE generate_health_status

\* The statements of the loop that make a store call (insert_one, find_one,
\* insert_one, delete_many), and those whose call writes.
StoreCallPositions == InsertPositions \cup {"verify_insertion", "cleanup_old_data"}
WritePositions == InsertPositions \cup {"cleanup_old_data"}

\* The stop signal: Python raises KeyboardInterrupt in the main thread at the
\* statement it is executing.  It is no Exception, so the except clauses of
\* insert_document, verify_insertion, cleanup_old_data, run_simulation_cycle
\* and run_health_maintenance let it through, and run_simulation's "except
\* KeyboardInterrupt" is the first to catch it.  inflight: the signal arrives
\* inside the store call of the statement, which is left without its result;
\* applied: the server had carried out the write by then.  The statements
\* after the one it arrives at are not run: a signal at last_health_check =
\* current_time finds the purge done and leaves last_health_check as it was.
KeyboardInterrupt(inflight, applied) ==
    /\ opc \in {"cycle", "insert_document", "verify_insertion", "maintenance",
                "health_status", "cleanup_old_data", "last_health_check", "sleep"}
    /\ inflight => (opc \in StoreCallPositions /\ collection[Orchestrator])
    /\ applied => (inflight /\ opc \in WritePositions)
    /\ docs' = IF ~applied THEN docs
               ELSE IF opc \in InsertPositions THEN docs \cup {Stored(DocumentAt(opc))}
               ELSE docs \ Deleted(now - Days(DefaultDaysToKeep))
    /\ next_id' = IF applied /\ opc \in InsertPositions THEN next_id + 1 ELSE next_id
    /\ conn' = [conn EXCEPT !.abandoned = inflight]
    /\ opc' = "interrupted"
    /\ UNCHANGED <<cycle_data, doc_id, current_time, last_health_check, unverified,
                   attempts, failures>>
    /\ UNCHANGED <<now, lastOp, faults, collection, evalVars, schemaVars, setupVars,
                   validation, answer, startup, health, purge, quality>>

\* finally: self.cleanup(), which calls db_manager.close(): client.close().
Cleanup ==
    /\ opc = "interrupted"
    /\ conn' = [conn EXCEPT !.open = FALSE, !.closes = @ + 1]
    /\ opc' = "exited"
    /\ UNCHANGED <<cycle_data, doc_id, current_time, last_health_check, unverified,
                   attempts, failures>>
    /\ UNCHANGED <<dataVars, faults, collection, evalVars, schemaVars, setupVars,
                   validation, answer, startup, health, purge, quality>>

\* A second signal while the finally clause runs cleanup: its "except
\* Exception" lets it through and run_simulation is left at once, with
\* client.close() done (closed) or not yet called.
CleanupInterrupted(closed) ==
    /\ opc = "interrupted"
    /\ conn' = IF closed THEN [conn EXCEPT !.open = FALSE, !.closes = @ + 1] ELSE conn
    /\ opc' = "exited"
    /\ UNCHANGED <<cycle_data, doc_id, current_time, last_health_check, unverified,
                   attempts, failures>>
    /\ UNCHANGED <<dataVars, faults, collection, evalVars, schemaVars, setupVars,
                   validation, answer, startup, health, purge, quality>>

(***************************************************************************)
(* DataAnalyzer (data_analyzer.py): queries over the time-series collection*)
(***************************************************************************)
\* get_alert_summary(days=7) and the other queries' default window
DefaultWindowDays == 7
\* the band of get_optimal_periods' query
OptimalTempMin == 63
OptimalTempMax == 80
OptimalHumidityMin == 40
OptimalHumidityMax == 60
\* the band of get_data_quality_metrics' anomaly filter
SanityTempMin == 60
SanityTempMax == 85
SanityHumidityMin == 35
SanityHumidityMax == 70
\* days * 24 * 60 readings are expected, one a minute
MinutesPerDay == 1440

\* The building of a simulator's location: "MCW Porur SEZ" and "B9" are what
\* SensorSimulator() starts with, "MCW" and "CBE" what set_location is given.
BuildingOf(location) == IF location = "MCW Porur SEZ" THEN "B9" ELSE "CBE"

\* A reading as a simulator, with set_location or without, generated it at an
\* earlier tick and as the cycle stored it with its alerts.
StoredReading(stamp, location, temperature, humidity) ==
    LET generated == generate_sensor_data(temperature, humidity)
        alerts == check_all_thresholds(generated).alerts
        applied == apply_alerts_to_data(generated, alerts)
    IN  [applied EXCEPT !.timestamp = stamp, !.metadata.location = location,
                        !.metadata.building = BuildingOf(location)]
            @@ ("_id" :> <<"old", stamp, temperature, humidity>>)

MidTemp == (DefaultTempMin + DefaultTempMax) \div 2
MidHumidity == (DefaultHumidityMin + DefaultHumidityMax) \div 2

\* What the analyzer may find in the collection: readings without alert, with
\* one alert and with two, inside and outside the sanity band, of two hours
\* and two days, and a health-status document.
AnalyzerDocs ==
    { StoredReading(0, "MCW", MidTemp, MidHumidity),
      StoredReading(-1, "MCW", DefaultTempMax + 1, MidHumidity),
      StoredReading(-HourTicks, "MCW", SanityTempMin - 1, DefaultHumidityMin - 1),
      StoredReading(-HourTicks, "MCW Porur SEZ", DefaultTempMin, DefaultHumidityMax),
      StoredReading(-DayTicks - 1, "MCW", SanityTempMax + 1, SanityHumidityMax + 1),
      OldDoc(-1) }

\* A field that a document does not have.
Absent == [py |-> "missing"]
FieldOf(d, field) == IF field \in DOMAIN d THEN d[field] ELSE Absent
\* {"metrics.<metric>": {"$exists": True}}
HasMetric(d, metric) == "metrics" \in DOMAIN d /\ metric \in DOMAIN d.metrics
\* {"timestamp": {"$gte": start_time, "$lte": end_time}}
InWindow(d, start_time, end_time) ==
    start_time <= d.timestamp /\ d.timestamp <= end_time
\* {"$ne": None}: the field is there and is not null
NotNull(v) == v # Absent /\ v # PyNone
\* {field: None}: the field is null or not there
IsNull(v) == v = Absent \/ v = PyNone

\* One $group / $project result of get_alert_summary: the documents whose
\* alert_type VALUE is key, their number, the severity values pushed, and how
\* many of the pushed values equal the string "CRITICAL" / "WARNING".  $project
\* does not exclude _id, the group key, so it is there beside alert_type.
AlertSummaryGroup(matched, key) ==
    LET group == {d \in matched : d.alert_type = key}
        pushed(v) == Cardinality({d \in group : FieldOf(d, "severity") = v})
    IN  [_id |-> key,
         alert_type |-> key,
         count |-> Cardinality(group),
         severity_counts |-> [v \in {FieldOf(d, "severity") : d \in group} |-> pushed(v)],
         critical_count |-> pushed(PyStr("CRITICAL")),
         warning_count |-> pushed(PyStr("WARNING"))]

\* get_alert_summary(days): the results in no particular order, hence a set;
\* [] when the store call raises.
get_alert_summary(days, fail) ==
    IF fail THEN {}
    ELSE LET end_time == now
             start_time == end_time - Days(days)
             matched == {d \in docs : /\ InWindow(d, start_time, end_time)
                                      /\ NotNull(FieldOf(d, "alert_type"))}
         IN  {AlertSummaryGroup(matched, key) : key \in {d.alert_type : d \in matched}}

\* A DataAnalyzer query is made and answered; it changes nothing in the store.
Ask(op, arg, fail, out) ==
    /\ MayFail(fail)
    /\ faults' = faults + Count(fail)
    /\ answer' = [op |-> op, arg |-> arg, at |-> now, failed |-> fail, out |-> out]
    /\ UNCHANGED <<evalVars, schemaVars, collection, setupVars, dataVars, orchVars,
                   validation, startup, sessionVars>>

WindowChoices == (0..MaxDays) \cup {DefaultWindowDays}

GetAlertSummary(days, fail) ==
    Ask("get_alert_summary", days, fail, get_alert_summary(days, fail))

\* The date (year, month, day of month) of a timestamp, as the number of its
\* day, and its hour of the day.
DayOf(t) == t \div DayTicks
HourOf(t) == (t % DayTicks) \div HourTicks
\* the _id of $group: {year, month, day, hour} of the timestamp
Bucket(t) == [date |-> DayOf(t), hour |-> HourOf(t)]
\* the order of $sort {"_id": 1} on two such ids: field by field
BucketBefore(a, b) == a.date < b.date \/ (a.date = b.date /\ a.hour < b.hour)

RECURSIVE SumOf(_, _)
SumOf(group, metric) ==
    IF group = {} THEN 0
    ELSE LET d == CHOOSE x \in group : TRUE
         IN  d.metrics[metric] + SumOf(group \ {d}, metric)

RECURSIVE Gcd(_, _)
Gcd(a, b) == IF b = 0 THEN a ELSE Gcd(b, a % b)

\* $avg over the documents of a group that have the metric: the exact quotient,
\* as a fraction in lowest terms; null when no document has it.
Avg(group, metric) ==
    LET having == {d \in group : HasMetric(d, metric)}
        total == SumOf(having, metric)
        n == Cardinality(having)
        g == Gcd(total, n)
    IN  IF having = {} THEN None ELSE Some([num |-> total \div g, den |-> n \div g])

\* $min / $max over the documents of a group that have the metric
Min(group, metric) ==
    LET values == {d.metrics[metric] : d \in {x \in group : HasMetric(x, metric)}}
    IN  IF values = {} THEN None
        ELSE Some(CHOOSE v \in values : \A w \in values : v <= w)
Max(group, metric) ==
    LET values == {d.metrics[metric] : d \in {x \in group : HasMetric(x, metric)}}
    IN  IF values = {} THEN None
        ELSE Some(CHOOSE v \in values : \A w \in values : v >= w)

\* One $group result of a trends pipeline; avg, min and max stand for
\* avg_<metric>, min_<metric> and max_<metric>.
TrendGroup(matched, bucket, metric) ==
    LET group == {d \in matched : Bucket(d.timestamp) = bucket}
    IN  [_id |-> bucket,
         avg |-> Avg(group, metric),
         min |-> Min(group, metric),
         max |-> Max(group, metric),
         readings_count |-> Cardinality(group)]

RECURSIVE Descending(_)
Descending(buckets) ==
    IF buckets = {} THEN <<>>
    ELSE LET last == CHOOSE b \in buckets : \A c \in buckets \ {b} : BucketBefore(c, b)
         IN  <<last>> \o Descending(buckets \ {last})

\* $sort {"_id": 1}
RECURSIVE Ascending(_)
Ascending(buckets) ==
    IF buckets = {} THEN <<>>
    ELSE LET first == CHOOSE b \in buckets : \A c \in buckets \ {b} : BucketBefore(b, c)
         IN  <<first>> \o Ascending(buckets \ {first})

\* The pipeline of get_temperature_trends / get_humidity_trends: $match on the
\* window and on the metric being there, $group by hour, $sort; [] when the
\* store call raises.
Trends(metric, days, fail) ==
    IF fail THEN <<>>
    ELSE LET end_time == now
             start_time == end_time - Days(days)
             matched == {d \in docs : /\ InWindow(d, start_time, end_time)
                                      /\ HasMetric(d, metric)}
             sorted == Ascending({Bucket(d.timestamp) : d \in matched})
         IN  [i \in 1..Len(sorted) |-> TrendGroup(matched, sorted[i], metric)]

get_temperature_trends(days, fail) == Trends("temperature", days, fail)
get_humidity_trends(days, fail) == Trends("humidity", days, fail)

GetTemperatureTrends(days, fail) ==
    Ask("get_temperature_trends", days, fail, get_temperature_trends(days, fail))
GetHumidityTrends(days, fail) ==
    Ask("get_humidity_trends", days, fail, get_humidity_trends(days, fail))

\* The match stage of get_aggregated_metrics: the window, and a metadata field
\* for every filter argument that is true of "if location:", which None and
\* the empty string are not.
Given(filters) == {k \in DOMAIN filters : filters[k] # None /\ filters[k] # Some("")}
MatchStage(d, start_time, end_time, filters) ==
    /\ InWindow(d, start_time, end_time)
    /\ \A k \in Given(filters) :
          k \in DOMAIN d.metadata /\ d.metadata[k] = filters[k][1]

\* $group with _id None over the matched documents; $ne: ["$alert_type", None]
\* is true of every value but null, a missing field included.
AggregateGroup(matched) ==
    [_id |-> None,
     avg_temperature |-> Avg(matched, "temperature"),
     min_temperature |-> Min(matched, "temperature"),
     max_temperature |-> Max(matched, "temperature"),
     avg_humidity |-> Avg(matched, "humidity"),
     min_humidity |-> Min(matched, "humidity"),
     max_humidity |-> Max(matched, "humidity"),
     total_readings |-> Cardinality(matched),
     alert_count |-> Cardinality({d \in matched : FieldOf(d, "alert_type") # PyNone})]

SummariseZeroFilled(matched) == Some(AggregateGroup(matched))

\* "return result[0] if result else None": $group emits nothing for no input
Summarise(matched) ==
    IF matched = {} THEN None ELSE Some(AggregateGroup(matched))

\* get_aggregated_metrics(start_time, end_time, location, building, room);
\* None when the store call raises.
get_aggregated_metrics(start_time, end_time, filters, fail) ==
    IF fail THEN None
    ELSE Summarise({d \in docs : MatchStage(d, start_time, end_time, filters)})

(***************************************************************************)
(* The percentages are floats: part / whole is the double nearest to the   *)
(* quotient, times 100 is the double nearest to that product, and          *)
(* round(., 2) takes the nearest hundredth of the double it is given,      *)
(* the even one when that double is exactly half way.  A significand has   *)
(* 53 bits, so it is kept as a binary numeral: a sequence of bits, the     *)
(* most significant first and without leading zeros.  The remainders of    *)
(* the division are multiplied, which stays within 32 bits for a whole of  *)
(* up to 46340, a window of 32 days.                                       *)
(***************************************************************************)
Bits(n) ==
    LET length == Cardinality({k \in 0..30 : 2^k <= n})
    IN  [i \in 1..length |-> (n \div 2^(length - i)) % 2]

Shl(b, k) == IF b = <<>> THEN <<>> ELSE b \o [i \in 1..k |-> 0]

\* the i-th bit from the right
BitAt(b, i) == IF i >= 1 /\ i <= Len(b) THEN b[Len(b) + 1 - i] ELSE 0

\* the carry into column i of a + b: some column to its right makes one
\* and every column between passes it on
Carry(a, b, i) ==
    IF \E j \in 1..(i - 1) :
          /\ BitAt(a, j) + BitAt(b, j) = 2
          /\ \A k \in (j + 1)..(i - 1) : BitAt(a, k) + BitAt(b, k) >= 1
    THEN 1 ELSE 0

AddBits(a, b) ==
    LET n == (IF Len(a) > Len(b) THEN Len(a) ELSE Len(b)) + 1
        sum == SubSeq([j \in 1..n |->
                         (BitAt(a, n + 1 - j) + BitAt(b, n + 1 - j)
                                              + Carry(a, b, n + 1 - j)) % 2], 1, n)
    IN  IF sum[1] = 0 THEN Tail(sum) ELSE sum

Less(a, b) ==
    IF Len(a) # Len(b) THEN Len(a) < Len(b)
    ELSE \E i \in 1..Len(a) : a[i] < b[i] /\ \A j \in 1..(i - 1) : a[j] = b[j]

\* Round a numeral to 53 significant bits, to nearest and on a tie to the even
\* significand; sticky: the exact value has more below the numeral's last bit.
Round53(b, sticky) ==
    IF Len(b) <= 53 THEN [bits |-> b, dropped |-> 0]
    ELSE LET kept == SubSeq(b, 1, 53)
             inexact == sticky \/ \E i \in 55..Len(b) : b[i] = 1
             up == b[54] = 1 /\ (inexact \/ b[53] = 1)
         IN  [bits |-> IF up THEN AddBits(kept, <<1>>) ELSE kept,
              dropped |-> Len(b) - 53]

\* 2^k modulo whole, by squaring
RECURSIVE PowMod(_, _)
PowMod(k, whole) ==
    IF k = 0 THEN 1 % whole
    ELSE LET half == PowMod(k \div 2, whole)
         IN  (((half * half) % whole) * (IF k % 2 = 1 THEN 2 ELSE 1)) % whole

\* the remainder of long division after k bits of the fraction of r / whole
Rem(r, whole, k) == (r * PowMod(k, whole)) % whole

\* The binary expansion of part / whole to 54 significant bits: the bits of
\* the integer part, then fraction bits from the first significant one; frac
\* counts the bits after the point and rem is the remainder left.
Expand(part, whole) ==
    LET int == Bits(part \div whole)
        r == part % whole
        zeros == IF int # <<>> THEN 0
                 ELSE Cardinality({k \in 1..30 : r <= (whole - 1) \div 2^k})
        frac == zeros + 54 - Len(int)
    IN  [bits |-> int \o [i \in 1..(frac - zeros) |->
                            IF 2 * Rem(r, whole, zeros + i - 1) >= whole THEN 1 ELSE 0],
         frac |-> frac,
         rem |-> Rem(r, whole, frac)]

\* part / whole for part > 0: the double bits * 2^-scale
TrueDiv(part, whole) ==
    LET exact == Expand(part, whole)
        rounded == Round53(exact.bits, exact.rem # 0)
    IN  [bits |-> rounded.bits, scale |-> exact.frac - rounded.dropped]

\* q * 100, with 100 = 64 + 32 + 4
Times100(q) ==
    LET product == AddBits(AddBits(Shl(q.bits, 6), Shl(q.bits, 5)), Shl(q.bits, 2))
        rounded == Round53(product, FALSE)
    IN  [bits |-> rounded.bits, scale |-> q.scale - rounded.dropped]

\* -1, 0 or 1 as the double p lies below, at or above odd / 200, by comparing
\* 200 * p.bits with odd * 2^scale (200 = 128 + 64 + 8)
Side(p, odd) ==
    LET lhs == Shl(AddBits(AddBits(Shl(p.bits, 7), Shl(p.bits, 6)), Shl(p.bits, 3)),
                   IF p.scale < 0 THEN 0 - p.scale ELSE 0)
        rhs == Shl(Bits(odd), IF p.scale > 0 THEN p.scale ELSE 0)
    IN  IF Less(lhs, rhs) THEN -1 ELSE IF Less(rhs, lhs) THEN 1 ELSE 0

\* round((part / whole) * 100, 2), in hundredths of a percent.  When the true
\* percentage is no odd multiple of 0.005 it is further from one than the two
\* roundings can move it, and the nearest hundredth is that of the true value.
\* When it is one, the side the double fell on decides, and the even hundredth
\* only when the double is that multiple exactly: (207 / 1440) * 100 is
\* 14.374999999999998 and gives 14.37, (9 / 1440) * 100 is 0.625 and gives 0.62.
RECURSIVE Percent(_, _)
Percent(part, whole) ==
    IF part < 0 THEN 0 - Percent(0 - part, whole)
    ELSE LET floor == (10000 * part) \div whole
             twice == 2 * ((10000 * part) % whole)
             side == Side(Times100(TrueDiv(part, whole)), 2 * floor + 1)
         IN  IF twice < whole THEN floor
             ELSE IF twice > whole THEN floor + 1
             ELSE IF side < 0 THEN floor
             ELSE IF side > 0 THEN floor + 1
             ELSE IF floor % 2 = 0 THEN floor ELSE floor + 1

AnomalousEither(d) ==
    \/ HasMetric(d, "temperature")
          /\ (d.metrics["temperature"] < SanityTempMin \/ d.metrics["temperature"] > SanityTempMax)
    \/ HasMetric(d, "humidity")
          /\ (d.metrics["humidity"] < SanityHumidityMin \/ d.metrics["humidity"] > SanityHumidityMax)

\* the $or filter of the anomaly count: each branch puts $lt and $gt on the
\* same field, and both must hold of its value
Anomalous(d) ==
    \/ HasMetric(d, "temperature")
          /\ d.metrics["temperature"] < SanityTempMin /\ d.metrics["temperature"] > SanityTempMax
    \/ HasMetric(d, "humidity")
          /\ d.metrics["humidity"] < SanityHumidityMin /\ d.metrics["humidity"] > SanityHumidityMax

\* The first store call of get_data_quality_metrics(days): count_documents over
\* the window, whose bounds are read off the clock once.
QualityWindow(days) ==
    [op |-> "get_data_quality_metrics", days |-> days, at |-> now,
     start_time |-> now - Days(days), end_time |-> now,
     actual_readings |-> Cardinality({d \in docs : InWindow(d, now - Days(days), now)})]

\* The second store call, count_documents with the $or filter over the same
\* bounds and the store as it is by then, and the dictionary that is returned.
get_data_quality_metrics(counted) ==
    LET expected_readings == counted.days * MinutesPerDay
        actual_readings == counted.actual_readings
        window == {d \in docs : InWindow(d, counted.start_time, counted.end_time)}
    IN  [period_days |-> counted.days,
         expected_readings |-> expected_readings,
         actual_readings |-> actual_readings,
         missing_readings |-> expected_readings - actual_readings,
         missing_percentage |->
             Percent(expected_readings - actual_readings, expected_readings),
         anomalies |-> Cardinality({d \in window : Anomalous(d)}),
         data_completeness |-> Percent(actual_readings, expected_readings)]

\* sort("timestamp", DESCENDING): the sequences the cursor may yield; documents
\* of one timestamp come in any order.
RECURSIVE NewestFirst(_)
NewestFirst(found) ==
    IF found = {} THEN {<<>>}
    ELSE LET newest == {x \in found : \A y \in found : x.timestamp >= y.timestamp}
         IN  UNION {{<<d>> \o rest : rest \in NewestFirst(found \ {d})} : d \in newest}

InConfiguredBand(d) ==
    /\ HasMetric(d, "temperature") /\ HasMetric(d, "humidity")
    /\ d.metrics["temperature"] >= temp_min /\ d.metrics["temperature"] <= temp_max
    /\ d.metrics["humidity"] >= humidity_min /\ d.metrics["humidity"] <= humidity_max

\* "metrics.temperature": {"$gte": 63, "$lte": 80} and
\* "metrics.humidity": {"$gte": 40, "$lte": 60}
InOptimalBand(d) ==
    /\ HasMetric(d, "temperature") /\ HasMetric(d, "humidity")
    /\ d.metrics["temperature"] >= OptimalTempMin /\ d.metrics["temperature"] <= OptimalTempMax
    /\ d.metrics["humidity"] >= OptimalHumidityMin /\ d.metrics["humidity"] <= OptimalHumidityMax

\* get_optimal_periods(days): the results the call may return; [] when the
\* store call raises.
get_optimal_periods(days, fail) ==
    IF fail THEN {<<>>}
    ELSE LET end_time == now
             start_time == end_time - Days(days)
         IN  NewestFirst({d \in docs : /\ InWindow(d, start_time, end_time)
                                       /\ IsNull(FieldOf(d, "alert_type"))
                                       /\ InOptimalBand(d)})

\* Arguments the analyzer's caller passes to get_aggregated_metrics.
StartChoices == {-DayTicks, 1}
EndChoices == {0}
LocationChoices == {None, Some("MCW"), Some("LAB")}
BuildingChoices == {None, Some("CBE")}

GetAggregatedMetrics(start_time, end_time, location, building, fail) ==
    LET filters == [location |-> location, building |-> building, room |-> None]
    IN  Ask("get_aggregated_metrics",
            [start_time |-> start_time, end_time |-> end_time, filters |-> filters],
            fail,
            get_aggregated_metrics(start_time, end_time, filters, fail))

\* get_data_quality_metrics(days) up to its first count_documents.  When the
\* call raises, and when days is 0, where the division by expected_readings
\* raises next, the except clause returns None; else the second count follows.
GetDataQualityMetrics(days, fail) ==
    /\ quality = NoCall
    /\ MayFail(fail)
    /\ faults' = faults + Count(fail)
    /\ IF fail \/ days * MinutesPerDay = 0
       THEN /\ answer' = [op |-> "get_data_quality_metrics", arg |-> days, at |-> now,
                          failed |-> fail, out |-> None]
            /\ UNCHANGED quality
       ELSE /\ quality' = QualityWindow(days)
            /\ UNCHANGED answer
    /\ UNCHANGED <<evalVars, schemaVars, collection, setupVars, dataVars, orchVars,
                   validation, startup, conn, health, purge>>

\* The second count_documents and the return; None when the call raises.
GetDataQualityAnomalies(fail) ==
    /\ quality # NoCall
    /\ MayFail(fail)
    /\ faults' = faults + Count(fail)
    /\ answer' = [op |-> "get_data_quality_metrics", arg |-> quality.days,
                  at |-> quality.at, failed |-> fail,
                  out |-> IF fail THEN None ELSE Some(get_data_quality_metrics(quality))]
    /\ quality' = NoCall
    /\ UNCHANGED <<evalVars, schemaVars, collection, setupVars, dataVars, orchVars,
                   validation, startup, conn, health, purge>>

GetOptimalPeriods(days, fail) ==
    \E out \in get_optimal_periods(days, fail) : Ask("get_optimal_periods", days, fail, out)

\* timedelta(hours=hours), in ticks
Hours(hours) == hours * HourTicks

\* A query that would hand out what the cursor had yielded when the call raised.
QueryRecentPartial(hours, filters, fail) ==
    LET found == NewestFirst({d \in docs : MatchStage(d, now - Hours(hours), now, filters)})
    IN  IF fail THEN {IF yielded = <<>> THEN <<>> ELSE <<yielded[1]>> : yielded \in found}
        ELSE found

\* query_recent_data(hours, location, building, room): the documents of the
\* last hours that match the given metadata, newest first, as the call may return
\* them; [] when the call raises.
query_recent_data(hours, filters, fail) ==
    IF fail THEN {<<>>}
    ELSE NewestFirst({d \in docs : MatchStage(d, now - Hours(hours), now, filters)})

\* export_data_to_json(filename, days): find over the window, then the file is
\* written and True returned; False when the call raises, before any write.
export_data_to_json(days, fail) == ~fail

HourChoices == {0, 1, DayTicks \div HourTicks}

QueryRecentData(hours, location, fail) ==
    LET filters == [location |-> location, building |-> None, room |-> None]
    IN  \E out \in query_recent_data(hours, filters, fail) :
            Ask("query_recent_data", [hours |-> hours, filters |-> filters], fail, out)

ExportDataToJson(days, fail) ==
    Ask("export_data_to_json", days, fail, export_data_to_json(days, fail))

\* The alert manager of another process is given other thresholds meanwhile.
Reconfigure(tmin) ==
    SetThresholds(tmin, DefaultTempMax, DefaultHumidityMin, DefaultHumidityMax)

(***************************************************************************)
(* DatabaseManager: connect, check_health, close                           *)
(***************************************************************************)
\* The client before connect (self.client is None), and the MongoClient that
\* connect has made, which is open whether the ping went through or not.
NotConnected == [open |-> FALSE, closes |-> 0, abandoned |-> FALSE]
Connected == [open |-> TRUE, closes |-> 0, abandoned |-> FALSE]

\* the probe document check_health inserts, under a fresh ObjectId
Probe == [_id |-> <<"probe", Cardinality(health) + 1>>,
          test |-> "health_check", timestamp |-> now]

\* A probe that an earlier check left behind.
LeftProbe == [_id |-> <<"probe", 0>>, test |-> "health_check", timestamp |-> -1]

\* The store calls of check_health in order, each a round trip of its own.
HealthCalls == <<"ping", "insert_one", "find_one", "delete_one">>

\* A check whose delete_one would leave the probe where it is.
HealthCallKeepsProbe(step, inserted_id) ==
    IF HealthCalls[step] = "insert_one" THEN health \cup {Probe} ELSE health

\* __health after the store call of check_health at position step went
\* through: insert_one adds the probe, delete_one removes the document with the
\* id that insert_one returned, ping and find_one change nothing.
check_health(step, inserted_id) ==
    CASE HealthCalls[step] = "insert_one" -> health \cup {Probe}
      [] HealthCalls[step] = "delete_one" -> {d \in health : Some(d["_id"]) # inserted_id}
      [] OTHER -> health

(***************************************************************************)
(* main and IoTSimulationOrchestrator.initialize_system                    *)
(***************************************************************************)
\* main has built the orchestrator and is about to call initialize_system;
\* found is the schema of the store at that moment.
Starting(coll, idx) == [at |-> "connect", found |-> [coll |-> coll, idx |-> idx]]

\* initialize_system returns False (and main returns); cause names the step.
Exit(cause) == [at |-> "returned", found |-> startup.found, cause |-> cause]

StartupFrame ==
    UNCHANGED <<evalVars, schemaVars, collection, setupVars, dataVars, orchVars,
                validation, answer, purge, quality>>

\* if not self.db_manager.connect(): return False.  connect assigns the
\* MongoClient to self.client and pings; when the ping raises it returns False
\* with the client made and not closed.
StartupConnect(fail) ==
    /\ startup.at = "connect"
    /\ MayFail(fail)
    /\ faults' = faults + Count(fail)
    /\ startup' = IF fail THEN Exit("connect") ELSE [startup EXCEPT !.at = "setup"]
    /\ conn' = Connected
    /\ UNCHANGED health
    /\ StartupFrame

\* self.ts_collection.setup(), entered once; its further steps are the
\* Setup actions of the orchestrator's TimeSeriesCollection.
StartupSetup(fail) ==
    /\ startup.at = "setup"
    /\ report[Orchestrator].phase = "none"
    /\ SetupListCollections(Orchestrator, fail)

\* setup re-raised: except Exception in initialize_system returns False.
StartupSetupRaised ==
    /\ startup.at = "setup"
    /\ pc[Orchestrator] = "idle"
    /\ report[Orchestrator].phase = "ended"
    /\ report[Orchestrator].raised
    /\ startup' = Exit("setup")
    /\ UNCHANGED <<faults, conn, health>>
    /\ StartupFrame

\* check_health is entered when setup has returned, and is then at the store
\* call numbered startup.step.
AtHealthCall ==
    \/ startup.at = "check_health"
    \/ /\ startup.at = "setup"
       /\ pc[Orchestrator] = "idle"
       /\ report[Orchestrator].phase = "ended"
       /\ ~report[Orchestrator].raised

\* if not self.db_manager.check_health(): return False.  One step is one store
\* call of check_health; when it raises the except clause returns False, with
\* the probe left where it is, and after the last call the check returns True.
\* before is __health as the check found it.
StartupCheckHealth(fail) ==
    /\ AtHealthCall
    /\ MayFail(fail)
    /\ faults' = faults + Count(fail)
    /\ LET entered == startup.at = "check_health"
           step == IF entered THEN startup.step ELSE 1
           inserted_id == IF entered THEN startup.inserted_id ELSE None
           before == IF entered THEN startup.before ELSE health
       IN  /\ health' = IF fail THEN health ELSE check_health(step, inserted_id)
           /\ startup' =
                 IF fail THEN Exit("check_health")
                 ELSE IF step = Len(HealthCalls)
                      THEN [at |-> "configure", found |-> startup.found]
                      ELSE [at |-> "check_health", found |-> startup.found,
                            step |-> step + 1,
                            inserted_id |-> IF HealthCalls[step] = "insert_one"
                                            THEN Some(Probe["_id"]) ELSE inserted_id,
                            before |-> before]
    /\ UNCHANGED conn
    /\ StartupFrame

\* The stop signal during initialize_system: its "except Exception" lets the
\* KeyboardInterrupt through, main has no handler, and the process ends with
\* the client as it is, never closed.  made: in connect, the MongoClient had
\* been assigned by then; inflight: the signal arrives inside a store call;
\* applied: inside a call of check_health that the server had carried out.
\* A setup call under way is left where it is.
StartupInterrupted(made, inflight, applied) ==
    /\ startup.at \in {"connect", "setup", "check_health", "configure"}
    /\ (startup.at # "connect" \/ inflight) => made
    /\ inflight => startup.at \in {"connect", "setup", "check_health"}
    /\ applied => (inflight /\ startup.at = "check_health")
    /\ health' = IF applied THEN check_health(startup.step, startup.inserted_id)
                 ELSE health
    /\ conn' = IF made THEN [Connected EXCEPT !.abandoned = inflight] ELSE conn
    /\ startup' = Exit("KeyboardInterrupt")
    /\ pc' = [pc EXCEPT ![Orchestrator] = "idle"]
    /\ UNCHANGED <<faults, todo, pos, setups, run, report, lastEnd>>
    /\ UNCHANGED <<evalVars, schemaVars, collection, dataVars, orchVars,
                   validation, answer, purge, quality>>

\* set_location, set_sensor_id, set_thresholds(63, 80, 40, 60),
\* validate_thresholds, return True; main then enters run_simulation.
StartupConfigure ==
    /\ startup.at = "configure"
    /\ temp_min' = DefaultTempMin
    /\ temp_max' = DefaultTempMax
    /\ humidity_min' = DefaultHumidityMin
    /\ humidity_max' = DefaultHumidityMax
    /\ validation' = [op |-> "validate_thresholds",
                      config |-> <<DefaultTempMin, DefaultTempMax,
                                   DefaultHumidityMin, DefaultHumidityMax>>,
                      out |-> Warnings(DefaultTempMin, DefaultTempMax,
                                       DefaultHumidityMin, DefaultHumidityMax)]
    /\ startup' = [at |-> "run_simulation"]
    /\ opc' = "cycle"
    /\ UNCHANGED <<call, schemaVars, faults, collection, setupVars, dataVars, answer,
                   sessionVars>>
    /\ UNCHANGED <<cycle_data, doc_id, current_time, last_health_check, unverified,
                   attempts, failures>>

(***************************************************************************)
(* Initial states and specifications                                       *)
(***************************************************************************)
\* main has come through initialize_system and is inside run_simulation.
Started == [at |-> "run_simulation"]

\* The client is connected, __health is empty, no purge is under way.
SessionInit ==
    /\ conn = Connected
    /\ health = {}
    /\ purge = NoCall
    /\ quality = NoCall

\* The collection as earlier runs left it, at tick 0.
DataInit ==
    /\ now = 0
    /\ docs \in SUBSET OldDocs
    /\ next_id = 1
    /\ lastOp = NoOp

\* IoTSimulationOrchestrator.__init__
OrchestratorInit ==
    /\ opc = "cycle"
    /\ cycle_data = NoDoc
    /\ doc_id = None
    /\ current_time = None
    /\ last_health_check = None
    /\ unverified = {}
    /\ attempts = 0
    /\ failures = {}

\* The threshold evaluator on its own.
InitAlerts ==
    /\ AlertManagerInit
    /\ call = NoCall
    /\ StoreReadyInit
    /\ CollectionObjectsInit
    /\ collection = [p \in Initializers |-> FALSE]
    /\ docs = {} /\ now = 0 /\ next_id = 1 /\ lastOp = NoOp
    /\ OrchestratorInit
    /\ validation = NoCall
    /\ answer = NoCall
    /\ SessionInit
    /\ startup = Started

NextAlerts ==
    \/ \E tmin \in TempBounds, tmax \in TempBounds,
          hmin \in HumidityBounds, hmax \in HumidityBounds :
            SetThresholds(tmin, tmax, hmin, hmax)
    \/ \E v \in TempValues : CheckTemperature(v)
    \/ \E v \in HumidityValues : CheckHumidity(v)
    \/ \E document \in SensorDocs : CheckAll(document)

SpecAlerts == InitAlerts /\ [][NextAlerts]_vars

\* Schema setup by the two initializers, on a database in any earlier state.
InitSetup ==
    /\ AlertManagerInit
    /\ call = NoCall
    /\ StoreSchemaInit
    /\ CollectionObjectsInit
    /\ collection = [p \in Initializers |-> FALSE]
    /\ docs = {} /\ now = 0 /\ next_id = 1 /\ lastOp = NoOp
    /\ OrchestratorInit
    /\ validation = NoCall
    /\ answer = NoCall
    /\ SessionInit
    /\ startup = Started

NextSetup ==
    \/ \E p \in Initializers, fail \in BOOLEAN : SetupListCollections(p, fail)
    \/ \E p \in Initializers, fail \in BOOLEAN : SetupCreateCheck(p, fail)
    \/ \E p \in Initializers, fail \in BOOLEAN : SetupCreateCommand(p, fail)
    \/ \E p \in Initializers, fail \in BOOLEAN : SetupIndexInformation(p, fail)
    \/ \E p \in Initializers, fail \in BOOLEAN :
          \E keys \in todo[p] : SetupDropIndex(p, keys, fail)
    \/ \E p \in Initializers, fail \in BOOLEAN : SetupCreateIndex(p, fail)

SpecSetup == InitSetup /\ [][NextSetup]_vars

\* Inserts and retention runs on two TimeSeriesCollection objects, one that has
\* been through setup and one that has not, over any earlier content of the store.
InitRetention ==
    /\ AlertManagerInit
    /\ call = NoCall
    /\ StoreReadyInit
    /\ CollectionObjectsInit
    /\ collection = [p \in Initializers |-> p = Orchestrator]
    /\ DataInit
    /\ OrchestratorInit
    /\ validation = NoCall
    /\ answer = NoCall
    /\ SessionInit
    /\ startup = Started

NextRetention ==
    \/ \E p \in Initializers, fail \in BOOLEAN :
          InsertDocument(p, generate_health_status, fail)
    \/ \E p \in Initializers, days \in DayChoices, fail \in BOOLEAN :
          CleanupOldData(p, days, fail)
    \/ Tick

SpecRetention == InitRetention /\ [][NextRetention]_vars

\* The ingestion loop, entered after initialize_system returned True: the
\* orchestrator's collection reference is set and the thresholds are the
\* defaults.
Init ==
    /\ AlertManagerInit
    /\ call = NoCall
    /\ StoreReadyInit
    /\ CollectionObjectsInit
    /\ collection = [p \in Initializers |-> p = Orchestrator]
    /\ DataInit
    /\ OrchestratorInit
    /\ validation = NoCall
    /\ answer = NoCall
    /\ SessionInit
    /\ startup = Started

Next ==
    \/ \E temperature \in CycleTemps, humidity \in CycleHumidities :
          CycleGenerate(temperature, humidity)
    \/ \E fail \in BOOLEAN : CycleInsert(fail)
    \/ \E fail \in BOOLEAN : CycleVerify(fail)
    \/ MaintenanceCheck
    \/ \E fail \in BOOLEAN : MaintenanceInsert(fail)
    \/ \E fail \in BOOLEAN : MaintenanceCleanup(fail)
    \/ MaintenanceDone
    \/ Sleep

Spec == Init /\ [][Next]_vars

\* The loop on an empty collection.  It is one sequential thread that takes its
\* next step whenever it has one: run_simulation has no other way to wait than
\* time.sleep, which returns.
InitFair == Init /\ docs = {}

FairSpec == InitFair /\ [][Next]_vars /\ WF_vars(Next)

\* Configuration of the evaluator: bounds in either order, inside and outside
\* the recommended ranges, validated and evaluated against.
ConfigTemps == {RecommendedTempMin - 1, DefaultTempMin, DefaultTempMax}
ConfigHumidities == {DefaultHumidityMin, DefaultHumidityMax, RecommendedHumidityMax + 1}

NextConfig ==
    \/ \E tmin \in ConfigTemps, tmax \in ConfigTemps,
          hmin \in ConfigHumidities, hmax \in ConfigHumidities :
            SetThresholds(tmin, tmax, hmin, hmax)
    \/ ValidateThresholds
    \/ \E v \in ConfigTemps : CheckTemperature(v)

SpecConfig == InitAlerts /\ [][NextConfig]_vars

\* The whole program from main: the store is new, or holds the collection as
\* set up before, or as an earlier schema version left it.
StartupSchemas ==
    { [coll |-> FALSE, idx |-> {}],
      [coll |-> TRUE, idx |-> RequiredSet],
      [coll |-> TRUE, idx |-> { << <<"alert_type", ASCENDING>> >> }] }

InitStartup ==
    /\ AlertManagerInit
    /\ call = NoCall
    /\ \E found \in StartupSchemas :
          /\ coll_exists = found.coll
          /\ indexes = found.idx
          /\ startup = Starting(found.coll, found.idx)
    /\ created = 0
    /\ faults = 0
    /\ CollectionObjectsInit
    /\ collection = [p \in Initializers |-> FALSE]
    /\ docs = {}
    /\ now = 0
    /\ next_id = 1
    /\ lastOp = NoOp
    /\ opc = "off"
    /\ cycle_data = NoDoc
    /\ doc_id = None
    /\ current_time = None
    /\ last_health_check = None
    /\ unverified = {}
    /\ attempts = 0
    /\ failures = {}
    /\ validation = NoCall
    /\ answer = NoCall
    /\ conn = NotConnected
    /\ health \in {{}, {LeftProbe}}
    /\ purge = NoCall
    /\ quality = NoCall

NextStartup ==
    \/ \E fail \in BOOLEAN : StartupConnect(fail)
    \/ \E fail \in BOOLEAN : StartupSetup(fail)
    \/ \E fail \in BOOLEAN : SetupCreateCheck(Orchestrator, fail)
    \/ \E fail \in BOOLEAN : SetupCreateCommand(Orchestrator, fail)
    \/ \E fail \in BOOLEAN : SetupIndexInformation(Orchestrator, fail)
    \/ \E fail \in BOOLEAN :
          \E keys \in todo[Orchestrator] : SetupDropIndex(Orchestrator, keys, fail)
    \/ \E fail \in BOOLEAN : SetupCreateIndex(Orchestrator, fail)
    \/ StartupSetupRaised
    \/ \E fail \in BOOLEAN : StartupCheckHealth(fail)
    \/ \E made \in BOOLEAN, inflight \in BOOLEAN, applied \in BOOLEAN :
          StartupInterrupted(made, inflight, applied)
    \/ StartupConfigure
    \/ \E temperature \in CycleTemps, humidity \in CycleHumidities :
          CycleGenerate(temperature, humidity)
    \/ \E fail \in BOOLEAN : CycleInsert(fail)
    \/ \E fail \in BOOLEAN : CycleVerify(fail)
    \/ MaintenanceCheck
    \/ \E fail \in BOOLEAN : MaintenanceInsert(fail)
    \/ \E fail \in BOOLEAN : MaintenanceCleanup(fail)
    \/ MaintenanceDone
    \/ Sleep

SpecStartup == InitStartup /\ [][NextStartup]_vars

\* The loop with queries made beside it, on a collection that holds what
\* earlier runs left.
InitLifecycle == Init /\ docs = OldDocs

NextLifecycle ==
    \/ \E temperature \in CycleTemps, humidity \in CycleHumidities :
          CycleGenerate(temperature, humidity)
    \/ \E fail \in BOOLEAN : CycleInsert(fail)
    \/ \E fail \in BOOLEAN : CycleVerify(fail)
    \/ MaintenanceCheck
    \/ \E fail \in BOOLEAN : MaintenanceInsert(fail)
    \/ \E fail \in BOOLEAN : MaintenanceCleanup(fail)
    \/ MaintenanceDone
    \/ Sleep
    \/ \E fail \in BOOLEAN : GetOptimalPeriods(DefaultWindowDays, fail)

SpecLifecycle == InitLifecycle /\ [][NextLifecycle]_vars

\* The loop under thresholds that are set anew between two cycles: ordered
\* pairs and an inverted one.
RetuneChoices == {DefaultTempMin, DefaultTempMin + Shift, DefaultTempMax + Shift}

Retune(tmin) ==
    /\ opc = "cycle"
    /\ Reconfigure(tmin)

NextPolicy ==
    \/ \E temperature \in CycleTemps, humidity \in CycleHumidities :
          CycleGenerate(temperature, humidity)
    \/ \E fail \in BOOLEAN : CycleInsert(fail)
    \/ \E fail \in BOOLEAN : CycleVerify(fail)
    \/ MaintenanceCheck
    \/ \E fail \in BOOLEAN : MaintenanceInsert(fail)
    \/ \E fail \in BOOLEAN : MaintenanceCleanup(fail)
    \/ MaintenanceDone
    \/ Sleep
    \/ \E tmin \in RetuneChoices : Retune(tmin)

SpecPolicy == InitFair /\ [][NextPolicy]_vars

\* The loop with the stop signal arriving at any of its statements.
NextShutdown ==
    \/ \E temperature \in CycleTemps, humidity \in CycleHumidities :
          CycleGenerate(temperature, humidity)
    \/ \E fail \in BOOLEAN : CycleInsert(fail)
    \/ \E fail \in BOOLEAN : CycleVerify(fail)
    \/ MaintenanceCheck
    \/ \E fail \in BOOLEAN : MaintenanceInsert(fail)
    \/ \E fail \in BOOLEAN : MaintenanceCleanup(fail)
    \/ MaintenanceDone
    \/ Sleep
    \/ \E inflight \in BOOLEAN, applied \in BOOLEAN : KeyboardInterrupt(inflight, applied)
    \/ Cleanup
    \/ \E closed \in BOOLEAN : CleanupInterrupted(closed)

SpecShutdown == InitLifecycle /\ [][NextShutdown]_vars

\* A purge and inserts of two clients of one store, in any interleaving.
InitRace ==
    /\ AlertManagerInit
    /\ call = NoCall
    /\ StoreReadyInit
    /\ CollectionObjectsInit
    /\ collection = [p \in Initializers |-> TRUE]
    /\ now = 0
    /\ docs = OldDocs
    /\ next_id = 1
    /\ lastOp = NoOp
    /\ OrchestratorInit
    /\ validation = NoCall
    /\ answer = NoCall
    /\ SessionInit
    /\ startup = Started

NextRace ==
    \/ \E p \in Initializers, days \in DayChoices : PurgeBegin(p, days)
    \/ \E fail \in BOOLEAN : PurgeDelete(fail)
    \/ \E p \in Initializers, fail \in BOOLEAN :
          InsertDocument(p, generate_health_status, fail)
    \/ Tick

SpecRace == InitRace /\ [][NextRace]_vars

\* The loop at some iteration of its life: no maintenance performed yet, or
\* the last one performed one interval ago, or one tick less.  One sequential thread, as
\* in FairSpec.
InitCadence ==
    /\ AlertManagerInit
    /\ call = NoCall
    /\ StoreReadyInit
    /\ CollectionObjectsInit
    /\ collection = [p \in Initializers |-> p = Orchestrator]
    /\ docs = {}
    /\ now = 0
    /\ next_id = 1
    /\ lastOp = NoOp
    /\ opc = "cycle"
    /\ cycle_data = NoDoc
    /\ doc_id = None
    /\ current_time = None
    /\ last_health_check \in {None, Some(0 - health_check_interval),
                              Some(1 - health_check_interval)}
    /\ unverified = {}
    /\ attempts = 0
    /\ failures = {}
    /\ validation = NoCall
    /\ answer = NoCall
    /\ SessionInit
    /\ startup = Started

SpecCadence == InitCadence /\ [][Next]_vars /\ WF_vars(Next)

\* The analyzer's queries over any earlier content of the collection.
InitAnalyzer ==
    /\ AlertManagerInit
    /\ call = NoCall
    /\ StoreReadyInit
    /\ CollectionObjectsInit
    /\ collection = [p \in Initializers |-> TRUE]
    /\ now = 0
    /\ docs \in SUBSET AnalyzerDocs
    /\ next_id = 1
    /\ lastOp = NoOp
    /\ OrchestratorInit
    /\ validation = NoCall
    /\ answer = NoCall
    /\ SessionInit
    /\ startup = Started

NextAnalyzer ==
    \/ \E days \in WindowChoices, fail \in BOOLEAN : GetAlertSummary(days, fail)
    \/ \E days \in WindowChoices, fail \in BOOLEAN : GetTemperatureTrends(days, fail)
    \/ \E days \in WindowChoices, fail \in BOOLEAN : GetHumidityTrends(days, fail)
    \/ \E start_time \in StartChoices, end_time \in EndChoices,
          location \in LocationChoices, building \in BuildingChoices, fail \in BOOLEAN :
            GetAggregatedMetrics(start_time, end_time, location, building, fail)
    \/ \E days \in WindowChoices, fail \in BOOLEAN : GetDataQualityMetrics(days, fail)
    \/ \E fail \in BOOLEAN : GetDataQualityAnomalies(fail)
    \/ \E days \in WindowChoices, fail \in BOOLEAN : GetOptimalPeriods(days, fail)
    \/ \E hours \in HourChoices, location \in LocationChoices, fail \in BOOLEAN :
          QueryRecentData(hours, location, fail)
    \/ \E days \in WindowChoices, fail \in BOOLEAN : ExportDataToJson(days, fail)
    \/ Reconfigure(DefaultTempMin + Shift)

SpecAnalyzer == InitAnalyzer /\ [][NextAnalyzer]_vars

(***************************************************************************)
(* Threshold evaluation: claims C1 to C4, checked under SpecAlerts.        *)
(***************************************************************************)
TemperatureTypes == {"TEMPERATURE_LOW", "TEMPERATURE_HIGH"}
HumidityTypes == {"HUMIDITY_LOW", "HUMIDITY_HIGH"}

IsTemperatureAlert(a) == a.type \in TemperatureTypes
IsHumidityAlert(a) == a.type \in HumidityTypes

\* What one metric check must return for value v against bounds lo < hi.
BandVerdict(alerts, v, lo, hi, lowType, highType) ==
    /\ v < lo => Len(alerts) = 1 /\ alerts[1].type = lowType
    /\ v > hi => Len(alerts) = 1 /\ alerts[1].type = highType
    /\ (lo <= v /\ v <= hi) => alerts = <<>>

\* C1: with lo < hi, a metric check returns exactly one LOW alert when v < lo,
\* exactly one HIGH alert when v > hi, and no alert when lo <= v <= hi; a value
\* equal to lo or to hi produces no alert.
C1_InclusiveBounds ==
    /\ (call.op = "check_temperature_thresholds" /\ temp_min < temp_max) =>
          /\ ~call.out.raised
          /\ BandVerdict(call.out.alerts, call.arg, temp_min, temp_max,
                         "TEMPERATURE_LOW", "TEMPERATURE_HIGH")
    /\ (call.op = "check_humidity_thresholds" /\ humidity_min < humidity_max) =>
          /\ ~call.out.raised
          /\ BandVerdict(call.out.alerts, call.arg, humidity_min, humidity_max,
                         "HUMIDITY_LOW", "HUMIDITY_HIGH")

\* A humidity equal to the maximum of a proper band was checked and gave no alert.
C1_Witness ==
    /\ call.op = "check_humidity_thresholds"
    /\ humidity_min < humidity_max
    /\ call.arg = humidity_max
    /\ call.out.alerts = <<>>

\* The bound an alert of the given type reports a violation of.
ViolatedBound(type) ==
    CASE type = "TEMPERATURE_LOW" -> temp_min
      [] type = "TEMPERATURE_HIGH" -> temp_max
      [] type = "HUMIDITY_LOW" -> humidity_min
      [] type = "HUMIDITY_HIGH" -> humidity_max

\* The metric value an evaluator call looked at for an alert of the given type.
CheckedValue(type) ==
    IF call.op = "check_all_thresholds"
    THEN IF type \in TemperatureTypes THEN call.arg.metrics["temperature"]
                                      ELSE call.arg.metrics["humidity"]
    ELSE call.arg

\* C2: every alert's severity is WARNING when the value is at most 2 away from
\* the violated bound and CRITICAL when it is further away, for temperature
\* and humidity, LOW and HIGH.
C2_SeverityByDistance ==
    call.op # "none" =>
        \A i \in 1..Len(call.out.alerts) :
            LET a == call.out.alerts[i]
                d == Abs(CheckedValue(a.type) - ViolatedBound(a.type))
            IN  /\ d <= 2 => a.severity = "WARNING"
                /\ d > 2 => a.severity = "CRITICAL"

\* A temperature exactly 2 above the maximum was checked and gave a WARNING.
C2_Witness ==
    /\ call.op = "check_temperature_thresholds"
    /\ call.arg = temp_max + 2
    /\ Len(call.out.alerts) = 1
    /\ call.out.alerts[1].type = "TEMPERATURE_HIGH"
    /\ call.out.alerts[1].severity = "WARNING"

OutOfRange(v, lo, hi) == v < lo \/ v > hi

BothOutOfRange ==
    /\ call.op = "check_all_thresholds"
    /\ "metrics" \in DOMAIN call.arg
    /\ DOMAIN call.arg.metrics = {"temperature", "humidity"}
    /\ OutOfRange(call.arg.metrics["temperature"], temp_min, temp_max)
    /\ OutOfRange(call.arg.metrics["humidity"], humidity_min, humidity_max)

\* C3: a reading with temperature and humidity both out of range gets exactly
\* two alerts, a temperature alert and a humidity alert, each equal to what the
\* single-metric check returns for that metric alone.
C3_TwoIndependentAlerts ==
    BothOutOfRange =>
        LET m == call.arg.metrics
            alone_t == check_temperature_thresholds(Some(m["temperature"])).alerts
            alone_h == check_humidity_thresholds(Some(m["humidity"])).alerts
            both == call.out.alerts
        IN  /\ ~call.out.raised
            /\ Len(both) = 2
            /\ Len(alone_t) = 1 /\ Len(alone_h) = 1
            /\ Cardinality({i \in 1..2 : IsTemperatureAlert(both[i])}) = 1
            /\ Cardinality({i \in 1..2 : IsHumidityAlert(both[i])}) = 1
            /\ \E i \in 1..2 : both[i] = alone_t[1]
            /\ \E i \in 1..2 : both[i] = alone_h[1]

\* The scenario of the repository's test: temperature high, humidity low.
C3_Witness ==
    /\ BothOutOfRange
    /\ call.arg.metrics["temperature"] > temp_max
    /\ call.arg.metrics["humidity"] < humidity_min
    /\ Len(call.out.alerts) = 2

Missing(sensor_data, metric) ==
    \/ "metrics" \notin DOMAIN sensor_data
    \/ metric \notin DOMAIN sensor_data.metrics

\* C4: check_all_thresholds raises nothing when metrics are missing, returns
\* no alert for a missing metric, and returns for a present metric what the
\* check of that metric returns.
C4_MissingMetricNoAlert ==
    call.op = "check_all_thresholds" =>
        LET sd == call.arg
            got == call.out.alerts
        IN  /\ ~call.out.raised
            /\ Missing(sd, "temperature") =>
                  SelectSeq(got, IsTemperatureAlert) = <<>>
            /\ Missing(sd, "humidity") =>
                  SelectSeq(got, IsHumidityAlert) = <<>>
            /\ ~Missing(sd, "temperature") =>
                  SelectSeq(got, IsTemperatureAlert) =
                      check_temperature_thresholds(Some(sd.metrics["temperature"])).alerts
            /\ ~Missing(sd, "humidity") =>
                  SelectSeq(got, IsHumidityAlert) =
                      check_humidity_thresholds(Some(sd.metrics["humidity"])).alerts

\* A reading without temperature whose humidity is too high got one alert.
C4_Witness ==
    /\ call.op = "check_all_thresholds"
    /\ "metrics" \in DOMAIN call.arg
    /\ DOMAIN call.arg.metrics = {"humidity"}
    /\ call.arg.metrics["humidity"] > humidity_max
    /\ Len(call.out.alerts) = 1
    /\ call.out.alerts[1].type = "HUMIDITY_HIGH"

(***************************************************************************)
(* Retention: claims C5 and C6, checked under SpecRetention.               *)
(***************************************************************************)
\* now - N days of the cleanup_old_data call on record
CutoffOfCall == lastOp.at - lastOp.days * DayTicks

Removed == lastOp.before \ docs

\* C5: after cleanup_old_data(N) returns, no document older than now - N days
\* remains, every other document is still there, and the returned count is the
\* number of documents removed.
C5_PurgeComplete ==
    lastOp.op = "cleanup_old_data" =>
        /\ \A d \in docs : ~(d.timestamp < CutoffOfCall)
        /\ \A d \in lastOp.before : d.timestamp >= CutoffOfCall => d \in docs
        /\ lastOp.returned = Cardinality(Removed)

\* The call on record is a second cleanup_old_data(N) in a row, and no
\* document became old between the two.
SecondRunInARow ==
    /\ lastOp.op = "cleanup_old_data"
    /\ lastOp.prev.op = "cleanup_old_data"
    /\ lastOp.prev.days = lastOp.days
    /\ ~\E d \in lastOp.before :
          lastOp.prev.cutoff <= d.timestamp /\ d.timestamp < CutoffOfCall

\* C6: a second cleanup_old_data(N) right after a first, with no document
\* having become old in between, deletes nothing.
C6_SecondRunDeletesNothing ==
    SecondRunInARow => lastOp.returned = 0 /\ docs = lastOp.before

(***************************************************************************)
(* Schema setup: claims C7 to C9, checked under SpecSetup.                 *)
(***************************************************************************)
\* p's last finished setup call ran with no other setup call in progress, right
\* after a setup call that returned True.
SecondSetupInARow(p) ==
    /\ report[p].phase = "ended"
    /\ report[p].alone
    /\ report[p].prev.phase = "ended"
    /\ ~report[p].prev.raised

SameSchema(p) ==
    /\ ~report[p].raised
    /\ report[p].idx = report[p].prev.idx
    /\ report[p].coll = report[p].prev.coll

\* C7 as claimed: a second setup call in a row raises nothing and leaves the
\* collection and its index set as the first call left them.
C7_SetupIdempotent ==
    \A p \in Initializers : SecondSetupInARow(p) => SameSchema(p)

\* C7 as amended: a second setup call in a row raises exactly when one of
\* its store calls fails with an error setup does not tolerate (a failed
\* list_collections or drop_index is none); whether it raises or returns
\* True, the collection is still there, no index has been added, and the only
\* indexes gone are incompatible ones left behind by a drop that the first
\* call tolerated failing; after a first call without such a drop the index
\* set is as the first call left it.
C7_SecondSetupOutcome ==
    \A p \in Initializers :
        SecondSetupInARow(p) =>
            /\ report[p].raised <=> report[p].fatal
            /\ report[p].coll /\ report[p].prev.coll
            /\ report[p].idx \subseteq report[p].prev.idx
            /\ \A keys \in report[p].prev.idx \ report[p].idx :
                  Incompatible(keys) /\ report[p].prev.dropfail
            /\ ~report[p].prev.dropfail => report[p].idx = report[p].prev.idx

\* One initializer's second setup in a row returned True with the schema as it
\* found it, while the other's, which came right after a call that had
\* tolerated a failed drop, returned True having dropped the index left behind.
C7_Witness ==
    \E p \in Initializers, q \in Initializers :
        /\ SecondSetupInARow(p)
        /\ ~report[p].prev.dropfail
        /\ SameSchema(p)
        /\ RequiredSet \subseteq report[p].idx
        /\ SecondSetupInARow(q)
        /\ report[q].prev.dropfail
        /\ ~report[q].raised
        /\ report[q].idx # report[q].prev.idx

\* C8: after a setup call that returned True and in which no drop failed, the
\* collection has no index on alert_type, alert_message or severity.
C8_NoAlertIndexAfterSetup ==
    \A p \in Initializers :
        (report[p].phase = "ended" /\ ~report[p].raised /\ ~report[p].dropfail) =>
            \A keys \in report[p].idx : ~OnAlertField(keys)

\* C9: when the initializers find the database without the collection and no
\* store call fails for another reason, no setup call raises and the
\* collection is created exactly once.
C9_CreationRaceHandled ==
    (created >= 1 /\ faults = 0) =>
        /\ created = 1
        /\ \A p \in Initializers : report[p].phase = "ended" => ~report[p].raised

(***************************************************************************)
(* Ingestion loop: claim C10, checked under Spec.                          *)
(***************************************************************************)
\* C10: once the orchestrator is past the verification step, every document it
\* inserted successfully, reading or health status, has been read back by id.
C10_EveryInsertVerified ==
    opc # "verify_insertion" => unverified = {}

(***************************************************************************)
(* Analysis queries: claims C11 to C15, checked under SpecAnalyzer.        *)
(***************************************************************************)
AlertTypes ==
    {"TEMPERATURE_LOW", "TEMPERATURE_HIGH", "HUMIDITY_LOW", "HUMIDITY_HIGH",
     "HEALTH_STATUS"}

\* The alerts a stored document carries, as <<position, type, severity>>.
AlertsOf(d) ==
    LET t == FieldOf(d, "alert_type")
        v == FieldOf(d, "severity")
    IN  IF t.py = "list" THEN {<<i, t.items[i], v.items[i]>> : i \in 1..Len(t.items)}
        ELSE IF t.py = "str" THEN {<<1, t.s, v.s>>}
        ELSE {}

\* The documents inside the window of the query on record.
Window == {d \in docs : InWindow(d, answer.at - Days(answer.arg), answer.at)}

\* The in-window alerts of one type, of any severity or of one.
Occurrences(type) ==
    UNION {{<<d["_id"], a>> : a \in {x \in AlertsOf(d) : x[2] = type}} : d \in Window}
OccurrencesOf(type, severity) == {o \in Occurrences(type) : o[2][3] = severity}

\* C11: get_alert_summary returns, for every alert type that occurs in the
\* window, exactly one entry, whose count is the number of in-window alerts of
\* the type and whose critical_count / warning_count are the numbers of those
\* with severity CRITICAL / WARNING; also for readings that carry two alerts.
C11_SummaryPerAlertType ==
    (answer.op = "get_alert_summary" /\ ~answer.failed) =>
        \A type \in AlertTypes :
            LET entries == {e \in answer.out :
                               e.alert_type \in {PyStr(type), PyList(<<type>>)}}
            IN  Occurrences(type) # {} =>
                    /\ Cardinality(entries) = 1
                    /\ \A e \in entries :
                          /\ e.count = Cardinality(Occurrences(type))
                          /\ e.critical_count = Cardinality(OccurrencesOf(type, "CRITICAL"))
                          /\ e.warning_count = Cardinality(OccurrencesOf(type, "WARNING"))

\* The metric a trends query is about.
TrendMetric ==
    IF answer.op = "get_temperature_trends" THEN "temperature" ELSE "humidity"
IsTrends == answer.op \in {"get_temperature_trends", "get_humidity_trends"}

\* The in-window documents that carry the metric, all and those of an hour.
Carrying == {d \in Window : HasMetric(d, TrendMetric)}
InHour(date, hour) ==
    {d \in Carrying : d.timestamp \div DayTicks = date
                      /\ (d.timestamp % DayTicks) \div HourTicks = hour}

\* What a trends answer must be: one result per hour that holds a document
\* carrying the metric, in ascending order of time, each with the number, the
\* mean, the minimum and the maximum of the hour's values.
TrendsAsSpecified ==
    LET out == answer.out
    IN  /\ \A d \in Carrying : \E i \in 1..Len(out) : d \in InHour(out[i]._id.date, out[i]._id.hour)
        /\ \A i \in 1..Len(out) :
              LET group == InHour(out[i]._id.date, out[i]._id.hour)
                  values == {d.metrics[TrendMetric] : d \in group}
              IN  /\ group # {}
                  /\ out[i].readings_count = Cardinality(group)
                  /\ out[i].avg # None
                  /\ out[i].avg[1].num * Cardinality(group)
                        = out[i].avg[1].den * SumOf(group, TrendMetric)
                  /\ out[i].min # None /\ out[i].min[1] \in values
                  /\ \A v \in values : out[i].min[1] <= v
                  /\ out[i].max # None /\ out[i].max[1] \in values
                  /\ \A v \in values : out[i].max[1] >= v
        /\ \A i, j \in 1..Len(out) :
              i < j => \A d \in InHour(out[i]._id.date, out[i]._id.hour),
                          e \in InHour(out[j]._id.date, out[j]._id.hour) :
                            d.timestamp < e.timestamp

\* C12 as claimed: every trends query returns one result per hour bucket that
\* holds an in-window document carrying the metric, ordered by bucket
\* ascending, with the count, mean, minimum and maximum of the bucket.
C12_TrendsPerHour ==
    IsTrends => TrendsAsSpecified

\* C12 as amended: the same when the aggregation does not raise; when it
\* raises the query returns the empty list.
C12_TrendsPerHourWhenAnswered ==
    IsTrends =>
        /\ ~answer.failed => TrendsAsSpecified
        /\ answer.failed => answer.out = <<>>

\* A temperature trend over two hours, the earlier one holding two readings and
\* a health-status document that is not counted.
C12_Witness ==
    /\ answer.op = "get_temperature_trends"
    /\ ~answer.failed
    /\ Len(answer.out) = 2
    /\ answer.out[1].readings_count = 2
    /\ answer.out[1].min # answer.out[1].max
    /\ \E d \in Window : ~HasMetric(d, "temperature")
           /\ Bucket(d.timestamp) = answer.out[1]._id

\* The documents that match the window and the filters of the
\* get_aggregated_metrics call on record.
Matching ==
    {d \in docs :
        /\ answer.arg.start_time <= d.timestamp /\ d.timestamp <= answer.arg.end_time
        /\ \A k \in {"location", "building", "room"} :
              answer.arg.filters[k] # None => d.metadata[k] = answer.arg.filters[k][1]}

\* C13 as claimed: get_aggregated_metrics returns None whenever no document
\* matches, and whenever a document matches a summary whose total_readings is
\* the number of matching documents.
C13_AbsentWhenNoMatch ==
    answer.op = "get_aggregated_metrics" =>
        /\ Matching = {} => answer.out = None
        /\ Matching # {} =>
              answer.out # None /\ answer.out[1].total_readings = Cardinality(Matching)

\* C13 as amended: the same when the aggregation does not raise; when it
\* raises the result is None also if documents match.
C13_AbsentWhenNoMatchOrFailed ==
    answer.op = "get_aggregated_metrics" =>
        /\ Matching = {} => answer.out = None
        /\ (Matching # {} /\ ~answer.failed) =>
              answer.out # None /\ answer.out[1].total_readings = Cardinality(Matching)
        /\ answer.failed => answer.out = None

\* The collection holds documents of the window, none at the location asked
\* for, and the answer was None without a failure.
C13_Witness ==
    /\ answer.op = "get_aggregated_metrics"
    /\ ~answer.failed
    /\ answer.arg.filters.location = Some("LAB")
    /\ \E d \in docs : InWindow(d, answer.arg.start_time, answer.arg.end_time)
    /\ Matching = {}
    /\ answer.out = None

\* C14: get_data_quality_metrics(days) reports expected_readings = days * 1440
\* and counts as anomalies the in-window readings with temperature below 60
\* or above 85 or humidity below 35 or above 70.
C14_AnomaliesOutsideSanityBand ==
    (answer.op = "get_data_quality_metrics" /\ answer.out # None) =>
        /\ answer.out[1].expected_readings = answer.arg * 1440
        /\ answer.out[1].anomalies = Cardinality({d \in Window : AnomalousEither(d)})

\* What get_optimal_periods must return: the in-window readings without alert
\* whose temperature is in [63, 80] and humidity in [40, 60], each once.
OptimalAsSpecified ==
    LET out == answer.out
        optimal == {d \in Window :
                       /\ AlertsOf(d) = {}
                       /\ HasMetric(d, "temperature") /\ HasMetric(d, "humidity")
                       /\ d.metrics["temperature"] \in 63..80
                       /\ d.metrics["humidity"] \in 40..60}
    IN  /\ {out[i] : i \in 1..Len(out)} = optimal
        /\ Len(out) = Cardinality(optimal)

\* C15 as claimed: get_optimal_periods returns exactly those readings, whatever
\* thresholds set_thresholds has configured.
C15_OptimalIsCanonical ==
    answer.op = "get_optimal_periods" => OptimalAsSpecified

\* C15 as amended: the same when the find does not raise; when it raises the
\* result is the empty list.
C15_OptimalIsCanonicalWhenAnswered ==
    answer.op = "get_optimal_periods" =>
        /\ ~answer.failed => OptimalAsSpecified
        /\ answer.failed => answer.out = <<>>

\* With the minimum temperature configured above 63, a reading at 63 degrees
\* was returned as optimal, and a reading with an alert was left out.
C15_Witness ==
    /\ answer.op = "get_optimal_periods"
    /\ ~answer.failed
    /\ temp_min > OptimalTempMin
    /\ \E i \in 1..Len(answer.out) : answer.out[i].metrics["temperature"] = OptimalTempMin
    /\ \E d \in Window : AlertsOf(d) # {}

(***************************************************************************)
(* Failure handling of the ingestion loop: claims C16 and C17.             *)
(***************************************************************************)
\* The stored readings: the documents that carry metrics.
Readings == {d \in docs : "metrics" \in DOMAIN d}

\* C16: a cycle calls insert_document at most once for its reading; after a
\* failed insert the reading is dropped and is not in the store; no reading is
\* stored twice; and the next cycle starts without a reading left over.
C16_OneInsertPerReading ==
    /\ attempts <= 1
    /\ \A d, e \in Readings : d.timestamp = e.timestamp => d = e
    /\ (opc = "maintenance" /\ lastOp.op = "insert_document" /\ ~lastOp.success) =>
          /\ cycle_data = NoDoc
          /\ ~\E d \in Readings : d.timestamp = now
    /\ opc = "cycle" => cycle_data = NoDoc /\ doc_id = None

\* The insert of the reading of tick 0 failed, that reading is not in the
\* store, and the next cycle has stored its own reading.
C16_Witness ==
    /\ now = 1
    /\ 0 \in failures
    /\ ~\E d \in Readings : d.timestamp = 0
    /\ \E d \in Readings : d.timestamp = 1
    /\ attempts = 1

LoopPositions ==
    {"cycle", "insert_document", "verify_insertion", "maintenance", "health_status",
     "cleanup_old_data", "last_health_check", "sleep"}

\* C17: the loop never leaves its positions, no step of it changes the
\* thresholds or the index set, and after a tick in which a step failed the
\* loop starts the next cycle at the following tick.
C17_FailureIsolated ==
    /\ [](opc \in LoopPositions)
    /\ [][alertVars' = alertVars /\ indexes' = indexes]_vars
    /\ \A t \in 0..(MaxClock - 1) :
          (t \in failures /\ now = t) ~> (opc = "cycle" /\ now = t + 1)

\* A step failed in one tick and the loop is at the start of the next cycle.
C17_Witness ==
    /\ opc = "cycle"
    /\ (now - 1) \in failures
    /\ alertVars = <<DefaultTempMin, DefaultTempMax, DefaultHumidityMin, DefaultHumidityMax>>

(***************************************************************************)
(* C18: startup is all-or-nothing.  When initialize_system has returned    *)
(* False the ingestion loop is never entered and no reading is inserted,   *)
(* and a startup whose connection or health check failed has created no    *)
(* collection and no index: the store's schema is as main found it.        *)
(***************************************************************************)
C18_StartupAllOrNothing ==
    startup.at = "returned" =>
        /\ opc = "off"
        /\ docs = {}
        /\ startup.cause \in {"connect", "check_health"} =>
              /\ coll_exists = startup.found.coll
              /\ indexes = startup.found.idx
              /\ created = 0

(***************************************************************************)
(* C19: in every reachable state, after any sequence of set_thresholds     *)
(* calls with arbitrary arguments, temp_min < temp_max and                 *)
(* humidity_min < humidity_max.                                            *)
(***************************************************************************)
C19_ThresholdsOrdered ==
    /\ temp_min < temp_max
    /\ humidity_min < humidity_max

\* the warnings a validate_thresholds call returned, as a set
Warned == {validation.out[i] : i \in 1..Len(validation.out)}

(***************************************************************************)
(* C20: validate_thresholds returns a list that holds the temperature      *)
(* min/max warning exactly when temp_min >= temp_max and the humidity      *)
(* min/max warning exactly when humidity_min >= humidity_max; the call is  *)
(* made on the configuration as it stands and leaves it as it is, and an   *)
(* evaluation made afterwards is the one the bounds as set give.           *)
(***************************************************************************)
C20_ValidationWarnsOnly ==
    /\ [](validation.op = "validate_thresholds" =>
            /\ (TempOrderWarning \in Warned) <=> (validation.config[1] >= validation.config[2])
            /\ (HumidityOrderWarning \in Warned) <=>
                  (validation.config[3] >= validation.config[4]))
    /\ [][validation' # validation =>
            /\ validation'.config = alertVars
            /\ alertVars' = alertVars]_vars
    /\ [](call.op = "check_temperature_thresholds" =>
            call.out = check_temperature_thresholds(Some(call.arg)))

\* An inverted temperature pair was validated: the temperature warning and
\* not the humidity one, the pair still inverted, and a reading between the
\* two bounds evaluated since then as below the minimum.
C20_Witness ==
    /\ validation.op = "validate_thresholds"
    /\ validation.config = alertVars
    /\ temp_min = DefaultTempMax
    /\ temp_max = RecommendedTempMin - 1
    /\ humidity_min < humidity_max
    /\ TempOrderWarning \in Warned
    /\ HumidityOrderWarning \notin Warned
    /\ call.op = "check_temperature_thresholds"
    /\ call.arg = DefaultTempMin
    /\ Len(call.out.alerts) = 1
    /\ call.out.alerts[1].type = "TEMPERATURE_LOW"

\* the document without the _id that insert_one gave it
Body(d) == [f \in DOMAIN d \ {"_id"} |-> d[f]]

(***************************************************************************)
(* C21: over ingestion cycles, maintenance runs and queries, a document    *)
(* comes into the collection by one insert, under an id never used before  *)
(* and as the cycle or the maintenance run had prepared it (alerts         *)
(* attached); a document that stays is not changed; a document leaves only *)
(* in a cleanup_old_data call, and only when its timestamp is older than   *)
(* the retention window of DefaultDaysToKeep days.                         *)
(***************************************************************************)
C21_DocumentLifecycle ==
    [][/\ Cardinality(docs' \ docs) <= 1
       /\ \A d \in docs' \ docs :
             /\ lastOp'.op = "insert_document"
             /\ d["_id"] = <<"new", next_id>>
             /\ next_id' = next_id + 1
             /\ \A e \in docs : e["_id"] # d["_id"]
             /\ Body(d) \in {cycle_data, generate_health_status}
       /\ \A d \in docs, e \in docs' : d["_id"] = e["_id"] => d = e
       /\ \A d \in docs \ docs' :
             /\ lastOp'.op = "cleanup_old_data"
             /\ d.timestamp < now - DefaultDaysToKeep * DayTicks
       /\ next_id' >= next_id]_vars

\* A reading was inserted with its alert lists, an expired document was
\* purged, and a query was answered since.
C21_Witness ==
    /\ lastOp.op = "cleanup_old_data"
    /\ lastOp.returned = 1
    /\ OldDoc(-1 - DefaultDaysToKeep * DayTicks) \notin docs
    /\ OldDoc(0 - DefaultDaysToKeep * DayTicks) \in docs
    /\ \E d \in docs : d["_id"] = <<"new", 1>> /\ d.alert_type.py = "list"
    /\ answer.op = "get_optimal_periods"
    /\ answer.at = now

\* an alert field of a stored document that is there and is not null
Valued(d, field) == FieldOf(d, field).py \notin {"missing", "None"}

(***************************************************************************)
(* C22: in every stored document, readings and health-status documents     *)
(* alike, each of alert_type, alert_message and severity that is present   *)
(* with a value is a sequence, and the three are aligned: all of them are  *)
(* valued or none is, and they have the same length.                       *)
(***************************************************************************)
C22_AlertFieldsAligned ==
    \A d \in docs :
        /\ \A f \in AlertFields : Valued(d, f) => FieldOf(d, f).py = "list"
        /\ \A f, g \in AlertFields : Valued(d, f) <=> Valued(d, g)
        /\ \A f, g \in AlertFields :
              (FieldOf(d, f).py = "list" /\ FieldOf(d, g).py = "list")
                  => Len(FieldOf(d, f).items) = Len(FieldOf(d, g).items)

\* the health-status documents in the collection
HealthStatusDocs == {d \in docs : "type" \in DOMAIN d.metadata}

(***************************************************************************)
(* C23: every health-status document that run_health_maintenance emits     *)
(* carries one alert, of type HEALTH_STATUS and severity INFO, and no       *)
(* metrics, under any thresholds; the insert is made with no threshold     *)
(* evaluation: what is stored is what generate_health_status returned.     *)
(***************************************************************************)
C23_HealthStatusFixed ==
    /\ [](\A d \in HealthStatusDocs :
            /\ d.alert_type = PyStr("HEALTH_STATUS")
            /\ d.severity = PyStr("INFO")
            /\ "metrics" \notin DOMAIN d)
    /\ [][opc = "health_status" =>
            /\ call' = call
            /\ \A d \in docs' \ docs :
                  /\ d \in HealthStatusDocs'
                  /\ Body(d) = generate_health_status]_vars

\* A health-status document was stored while the thresholds were inverted.
C23_Witness ==
    /\ temp_min > temp_max
    /\ \E d \in HealthStatusDocs :
          /\ d["_id"][1] = "new"
          /\ d.timestamp = now
    /\ lastOp.op = "insert_document"
    /\ opc = "cleanup_old_data"

\* the empty or absent result of each DataAnalyzer operation
ListQueries == {"query_recent_data", "get_temperature_trends", "get_humidity_trends",
                "get_optimal_periods"}
AbsentQueries == {"get_aggregated_metrics", "get_data_quality_metrics"}

FailedAnswerEmpty ==
    CASE answer.op \in ListQueries -> answer.out = <<>>
      [] answer.op = "get_alert_summary" -> answer.out = {}
      [] answer.op \in AbsentQueries -> answer.out = None
      [] answer.op = "export_data_to_json" -> answer.out = FALSE
      [] OTHER -> FALSE

(***************************************************************************)
(* C24: when the store call of a DataAnalyzer operation fails the caller   *)
(* gets that operation's empty or absent result, whatever the collection   *)
(* holds ([] for the list queries, None for get_aggregated_metrics and     *)
(* get_data_quality_metrics, False for the export), and every DataAnalyzer *)
(* operation leaves the store as it was.                                   *)
(***************************************************************************)
C24_FailedQueryEmpty ==
    /\ []((answer.op # "none" /\ answer.failed) => FailedAnswerEmpty)
    /\ [][answer' # answer =>
            /\ docs' = docs
            /\ health' = health
            /\ <<coll_exists, indexes, created>>' = <<coll_exists, indexes, created>>]_vars

\* A query for the recent documents failed over a collection that holds some.
C24_Witness ==
    /\ answer.op = "query_recent_data"
    /\ answer.failed
    /\ answer.out = <<>>
    /\ <<>> \notin query_recent_data(answer.arg.hours, answer.arg.filters, FALSE)

(***************************************************************************)
(* C25: when the stop signal arrives at any point of the loop, an insert   *)
(* in flight included, the connection is released only after the current   *)
(* insert has completed (no insert_one call is left without its result),   *)
(* and the connection is closed no more than once.                         *)
(***************************************************************************)
C25_InsertCompletesBeforeClose ==
    /\ conn.closes <= 1
    /\ ~conn.open => ~conn.abandoned

(***************************************************************************)
(* C26: in every interleaving of a purge with inserts on the shared store, *)
(* an inserted document carries the timestamp of its insertion, and a      *)
(* document leaves the store only in the delete of a purge and only when   *)
(* its timestamp is before the retention window of that purge at that      *)
(* moment; so a document inserted before, during or after a purge with a   *)
(* fresh timestamp is still there when the purge has finished.             *)
(***************************************************************************)
C26_PurgeSparesFreshInserts ==
    /\ [][\A d \in docs' \ docs : d.timestamp = now]_vars
    /\ [][\A d \in docs \ docs' :
            /\ purge # NoCall
            /\ d.timestamp < now - purge.days * DayTicks]_vars
    /\ [](lastOp.op = "cleanup_old_data" =>
            \A d \in docs \ lastOp.before : d.timestamp >= lastOp.at)

\* A purge has just finished that removed an old document, while a document
\* inserted between its two steps, at the very cut-off, is in the store.
C26_Witness ==
    /\ lastOp.op = "cleanup_old_data"
    /\ lastOp.reached
    /\ lastOp.returned > 0
    /\ purge = NoCall
    /\ \E d \in docs \ lastOp.before : d.timestamp = lastOp.cutoff

\* a step that is a store call of check_health: gone through, raised, or left
\* by the stop signal
HealthChecked ==
    /\ startup.at \in {"setup", "check_health"}
    /\ \/ startup'.at = "check_health" /\ startup' # startup
       \/ startup'.at = "configure"
       \/ startup'.at = "returned" /\ startup'.cause = "check_health"
       \/ /\ startup.at = "check_health"
          /\ startup'.at = "returned" /\ startup'.cause = "KeyboardInterrupt"

(***************************************************************************)
(* C27: check_health writes and deletes no document of the main            *)
(* collection and leaves its schema alone; only a check_health call        *)
(* changes __health, by its own probe alone; and a check that passes       *)
(* leaves __health with the documents it had before.                       *)
(***************************************************************************)
C27_HealthCheckIsolated ==
    /\ [][HealthChecked =>
            /\ docs' = docs
            /\ <<coll_exists, indexes, created>>' = <<coll_exists, indexes, created>>]_vars
    /\ [][health' # health => HealthChecked]_vars
    /\ [](startup.at = "check_health" =>
            /\ startup.before \subseteq health
            /\ \A d \in health \ startup.before : Some(d["_id"]) = startup.inserted_id)
    /\ [][(HealthChecked /\ startup'.at = "configure") => health' = startup.before]_vars

\* A check passed over a scratch collection that held an earlier probe, and
\* the loop has stored a document in the main collection since.
C27_Witness ==
    /\ startup.at = "run_simulation"
    /\ health = {LeftProbe}
    /\ docs # {}

(***************************************************************************)
(* C28: maintenance (the health-status insert and the purge with the       *)
(* default age of DefaultDaysToKeep days) is performed in the first loop   *)
(* iteration and afterwards only when health_check_interval has elapsed    *)
(* since the last performed maintenance, so two performed maintenance runs *)
(* are at least health_check_interval apart and none is overdue when the   *)
(* loop sleeps; an ingestion cycle runs in every tick all the same: the    *)
(* clock moves only from the loop's sleep into a new cycle, every cycle    *)
(* generates a reading of its tick and has made its insert attempt before  *)
(* the sleep, and every cycle reaches the sleep.                           *)
(***************************************************************************)
C28_MaintenanceCadence ==
    /\ [][opc' = "health_status" =>
            \/ last_health_check = None
            \/ now - last_health_check[1] >= health_check_interval]_vars
    /\ [][last_health_check' # last_health_check =>
            /\ last_health_check' = Some(now)
            /\ lastOp'.op = "cleanup_old_data"
            /\ lastOp'.days = DefaultDaysToKeep
            /\ \/ last_health_check = None
               \/ last_health_check'[1] - last_health_check[1] >= health_check_interval]_vars
    /\ [](opc = "sleep" =>
            /\ last_health_check # None
            /\ now - last_health_check[1] < health_check_interval)
    /\ [][now' # now => (opc = "sleep" /\ opc' = "cycle")]_vars
    /\ [][(opc = "cycle" /\ opc' # "cycle") =>
            (attempts' = 0 /\ cycle_data' # NoDoc /\ cycle_data'.timestamp = now)]_vars
    /\ [](opc = "sleep" => attempts = 1)
    /\ (opc = "cycle") ~> (opc = "sleep")

\* A second maintenance has been performed, one interval after an earlier
\* one, in a tick whose ingestion cycle ran as well.
C28_Witness ==
    /\ now > 0
    /\ last_health_check = Some(now)
    /\ lastOp.op = "cleanup_old_data"
    /\ lastOp.days = DefaultDaysToKeep
    /\ opc = "sleep"
    /\ attempts = 1

\* a value on the wrong side of both bounds, which takes an inverted pair
BelowAndAbove(v, lo, hi) == v < lo /\ v > hi

\* the positions of a check_all_thresholds result that hold an alert of a kind
TemperaturePositions(alerts) == {i \in 1..Len(alerts) : IsTemperatureAlert(alerts[i])}
HumidityPositions(alerts) == {i \in 1..Len(alerts) : IsHumidityAlert(alerts[i])}

(***************************************************************************)
(* C29: under every threshold configuration, inverted ones included, a     *)
(* metric check returns at most one alert, and the LOW alert alone when    *)
(* the value is below the minimum and above the maximum at once;           *)
(* check_all_thresholds returns at most two alerts, at most one per        *)
(* metric, the temperature alert before the humidity alert.                *)
(***************************************************************************)
C29_LowTakesPrecedence ==
    /\ call.op = "check_temperature_thresholds" =>
          /\ Len(call.out.alerts) <= 1
          /\ BelowAndAbove(call.arg, temp_min, temp_max) =>
                (Len(call.out.alerts) = 1 /\ call.out.alerts[1].type = "TEMPERATURE_LOW")
    /\ call.op = "check_humidity_thresholds" =>
          /\ Len(call.out.alerts) <= 1
          /\ BelowAndAbove(call.arg, humidity_min, humidity_max) =>
                (Len(call.out.alerts) = 1 /\ call.out.alerts[1].type = "HUMIDITY_LOW")
    /\ call.op = "check_all_thresholds" =>
          LET alerts == call.out.alerts IN
          /\ Len(alerts) <= 2
          /\ Cardinality(TemperaturePositions(alerts)) <= 1
          /\ Cardinality(HumidityPositions(alerts)) <= 1
          /\ \A i \in TemperaturePositions(alerts), j \in HumidityPositions(alerts) : i < j
          /\ \A i \in TemperaturePositions(alerts) :
                BelowAndAbove(call.arg.metrics["temperature"], temp_min, temp_max)
                    => alerts[i].type = "TEMPERATURE_LOW"
          /\ \A i \in HumidityPositions(alerts) :
                BelowAndAbove(call.arg.metrics["humidity"], humidity_min, humidity_max)
                    => alerts[i].type = "HUMIDITY_LOW"

\* Both pairs are inverted and a reading lies between the bounds of each:
\* two alerts, the temperature LOW one first, the humidity LOW one second.
C29_Witness ==
    /\ call.op = "check_all_thresholds"
    /\ "metrics" \in DOMAIN call.arg
    /\ DOMAIN call.arg.metrics = {"temperature", "humidity"}
    /\ BelowAndAbove(call.arg.metrics["temperature"], temp_min, temp_max)
    /\ BelowAndAbove(call.arg.metrics["humidity"], humidity_min, humidity_max)
    /\ Len(call.out.alerts) = 2
    /\ call.out.alerts[1].type = "TEMPERATURE_LOW"
    /\ call.out.alerts[2].type = "HUMIDITY_LOW"

\* the alert fields of a stored reading are the columns of the alerts that the
\* thresholds of the moment give for its metrics, or None three times over
AlertsAgree(d) ==
    LET alerts == check_all_thresholds(d).alerts
        out == \/ OutOfRange(d.metrics.temperature, temp_min, temp_max)
               \/ OutOfRange(d.metrics.humidity, humidity_min, humidity_max)
    IN  /\ out <=> alerts # <<>>
        /\ out => /\ d.alert_type = PyList([i \in 1..Len(alerts) |-> alerts[i].type])
                  /\ d.alert_message = PyList([i \in 1..Len(alerts) |-> alerts[i].message])
                  /\ d.severity = PyList([i \in 1..Len(alerts) |-> alerts[i].severity])
        /\ ~out => /\ d.alert_type = PyNone
                   /\ d.alert_message = PyNone
                   /\ d.severity = PyNone

(***************************************************************************)
(* C30: a regular reading enters the store with alert fields that agree    *)
(* with its own metrics under the thresholds in force at that moment: the  *)
(* three lists built from check_all_thresholds' output when a metric is    *)
(* out of range, None three times when both are in range; a later change   *)
(* of the thresholds leaves the store, and so these fields, as they are.   *)
(***************************************************************************)
C30_StoredAlertsMatchMetrics ==
    /\ [][\A d \in docs' \ docs : "metrics" \in DOMAIN d => AlertsAgree(d)]_vars
    /\ [][<<temp_min', temp_max', humidity_min', humidity_max'>>
              # <<temp_min, temp_max, humidity_min, humidity_max>> => docs' = docs]_vars
    /\ [][\A d \in docs, e \in docs' : d["_id"] = e["_id"] => d = e]_vars

\* A reading stored without alerts that the thresholds set since would flag,
\* beside one stored with its alert lists.
C30_Witness ==
    /\ \E d \in Readings :
          /\ d.alert_type = PyNone
          /\ OutOfRange(d.metrics.temperature, temp_min, temp_max)
    /\ \E d \in Readings : d.alert_type # PyNone /\ Len(d.alert_type.items) = 2

====
